---------------------------- MODULE Spec2Model ----------------------------
(***************************************************************************)
(* DecisionOS: the scoring engine, the readiness gate, the scenario stress *)
(* test, the template registry and the history store.                      *)
(*                                                                         *)
(* Numbers.  Scores, thresholds, deltas and final scores are fixed-point   *)
(* integers in thousandths of a point (6.5 is 6500).  Weights are in       *)
(* hundredths (0.25 is 25).  Every score the model draws is a multiple of  *)
(* 0.1 and every weight a multiple of 0.01, so a weighted contribution     *)
(* score * weight is an exact number of thousandths.  round(x, 2) is       *)
(* round-half-even to a multiple of 10 thousandths; Python rounds the      *)
(* binary float, which agrees with this except in the direction of some    *)
(* exact ties.                                                             *)
(***************************************************************************)
EXTENDS Integers, Sequences, FiniteSets, TLC

VARIABLES
    rule,        \* scoring: the TemplateRule under evaluation
    scores,      \* scoring: the scores mapping handed to the engine
    evaluation,  \* scoring: what the evaluation produced (or the exception)
    decision,    \* readiness: the dict handed to calculate_decision_readiness
    readiness,   \* readiness: the ReadinessResult (or the exception)
    session,     \* review: st.session_state, the values of the form's widgets
    review_readiness,  \* review: the readiness shown on the Review tab
    history_file,  \* history: data/decision_history.jsonl, its lines
    last_call,   \* history: the last storage call and what it returned
    appended,    \* history: the records handed to append_jsonl so far, in
                 \* order (kept to state the claims; the program has no copy)
    demo_mode,   \* home: st.session_state.demo_mode
    last_record, \* home: st.session_state.last_record
    form         \* home: the values of the form's widgets in the browser,
                 \* which reach st.session_state when the form is submitted

scoringVars == <<rule, scores, evaluation>>
readinessVars == <<decision, readiness>>
reviewVars == <<session, review_readiness>>
historyVars == <<history_file, last_call, appended>>
homeVars == <<demo_mode, last_record, form>>
vars == <<rule, scores, evaluation, decision, readiness, session,
         review_readiness, history_file, last_call, appended, demo_mode,
         last_record, form>>

\* a part of the program that takes no part in the run at hand
Idle == [exc |-> "idle"]
ScoringIdle == rule = Idle /\ scores = Idle /\ evaluation = Idle
ReadinessIdle == decision = Idle /\ readiness = Idle
ReviewIdle == session = Idle /\ review_readiness = Idle
HistoryIdle == history_file = Idle /\ last_call = Idle /\ appended = Idle
HomeIdle == demo_mode = Idle /\ last_record = Idle /\ form = Idle

---------------------------------------------------------------------------
(* Python values *)

\* a float or an int
Num(n) == [t |-> "num", n |-> n]
PyStr(s) == [t |-> "str", s |-> s]
PyNone == [t |-> "none"]
PyBool(b) == [t |-> "bool", b |-> b]
PyList(items) == [t |-> "list", items |-> items]
PyDict(items) == [t |-> "dict", items |-> items]
\* a str that float() cannot parse
NonNumeric == PyStr("abc")
\* the dict with no keys
EmptyMap == [k \in {} |-> k]
\* what a call produced: a value, or the exception it raised
Returned(v) == [exc |-> "none", val |-> v]
Raised(e) == [exc |-> e, val |-> 0]

\* float(v): a number as it is, ValueError for a str that is no number,
\* TypeError for None and containers
Float(v) ==
    IF v.t = "num" THEN Returned(v.n)
    ELSE IF v.t = "str" THEN Raised("ValueError")
    ELSE Raised("TypeError")

\* str.strip() on the strings of the model: only "" and " " are blank
Strip(s) == IF s \in {"", " "} THEN "" ELSE s

\* str.lower() on the strings of the model
Lower(s) ==
    CASE s = "HIGH" -> "high"
      [] s = "MEDIUM" -> "medium"
      [] s = "Medium" -> "medium"
      [] s = "LOW" -> "low"
      [] OTHER -> s

\* bool(v)
Truthy(v) ==
    CASE v.t = "bool" -> v.b
      [] v.t = "none" -> FALSE
      [] v.t = "num" -> v.n # 0
      [] v.t = "str" -> v.s # ""
      [] v.t = "list" -> v.items # <<>>
      [] v.t = "dict" -> DOMAIN v.items # {}

\* dict.get(key, default)
Get(d, key, default) == IF key \in DOMAIN d THEN d[key] ELSE default

Min2(a, b) == IF a <= b THEN a ELSE b
Max2(a, b) == IF a >= b THEN a ELSE b
SetMin(S) == CHOOSE x \in S : \A y \in S : x <= y

RECURSIVE SeqSum(_)
SeqSum(s) == IF s = <<>> THEN 0 ELSE Head(s) + SeqSum(Tail(s))

\* round(x, 2) on thousandths: the nearest multiple of 10, ties to the even one
Round2(x) ==
    LET q == x \div 10
        r == x % 10
    IN  IF r < 5 THEN 10 * q
        ELSE IF r > 5 THEN 10 * (q + 1)
        ELSE IF q % 2 = 0 THEN 10 * q ELSE 10 * (q + 1)

---------------------------------------------------------------------------
(* engine/templates.py, engine/custom_templates.py *)

\* thresholds as the built-in templates hold them: a list of (min, label)
ThresholdList(items) == [t |-> "list", items |-> items]
\* thresholds as the template builder stores them: {"go": g, "review": r}
ThresholdDict(go, review) ==
    [t |-> "dict", keys |-> <<"go", "review">>, vals |-> <<go, review>>]

TemplateRule(id, dims, weights, thresholds) ==
    [template_id |-> id, dimensions |-> dims, weights |-> weights,
     thresholds |-> thresholds]

GoNoGoDims == <<"Value", "Feasibility", "Risk", "Alignment", "Urgency">>
RiskExposureDims == <<"Financial Risk", "Operational Risk",
                      "Legal/Compliance Risk", "Reputational Risk",
                      "Control Readiness">>
ChangeImpactDims == <<"Impact Value", "Change Complexity", "Team Readiness",
                      "Risk of Resistance", "Reversibility">>

\* a weights dict from the dimension list and the weights in the same order
WeightsOf(dims, ws) ==
    [d \in {dims[i] : i \in 1..Len(dims)} |->
        ws[CHOOSE i \in 1..Len(dims) : dims[i] = d]]

TEMPLATES ==
    [k \in {"go_no_go", "risk_exposure", "change_impact"} |->
        CASE k = "go_no_go" ->
               TemplateRule("go_no_go", GoNoGoDims,
                   WeightsOf(GoNoGoDims, <<25, 25, 20, 20, 10>>),
                   ThresholdList(<< <<7500, "PROCEED">>,
                                    <<6000, "REVIEW / REVISE">>,
                                    <<0, "DO NOT PROCEED">> >>))
          [] k = "risk_exposure" ->
               TemplateRule("risk_exposure", RiskExposureDims,
                   WeightsOf(RiskExposureDims, <<30, 25, 20, 15, 10>>),
                   ThresholdList(<< <<7500, "LOW RISK">>,
                                    <<6000, "MODERATE RISK">>,
                                    <<0, "HIGH RISK">> >>))
          [] k = "change_impact" ->
               TemplateRule("change_impact", ChangeImpactDims,
                   WeightsOf(ChangeImpactDims, <<30, 25, 20, 15, 10>>),
                   ThresholdList(<< <<7500, "SAFE TO IMPLEMENT">>,
                                    <<6000, "IMPLEMENT WITH CAUTION">>,
                                    <<0, "HIGH IMPACT RISK">> >>))]

\* page_template_builder, "Save template": the TemplateRule it stores under key
BuilderTemplate(key, dims, weights, go, review) ==
    TemplateRule(key, dims, weights, ThresholdDict(go, review))

\* save_custom_templates then load_custom_templates: the JSON file keeps each
\* template's five fields as they are, thresholds as a JSON object
load_custom_templates(file) ==
    [k \in DOMAIN file |->
        TemplateRule(file[k].template_id, file[k].dimensions,
                     file[k].weights, file[k].thresholds)]

\* get_all_templates: merged = dict(TEMPLATES); merged.update(custom)
get_all_templates(file) ==
    LET custom == load_custom_templates(file)
    IN  [k \in DOMAIN TEMPLATES \cup DOMAIN custom |->
            IF k \in DOMAIN custom THEN custom[k] ELSE TEMPLATES[k]]

---------------------------------------------------------------------------
(* engine/scoring.py *)

ScoreFloor == 0
ScoreCeiling == 10000

\* max(0.0, min(10.0, float(score)))
clamp_score(score) ==
    LET f == Float(score)
    IN  IF f.exc # "none" THEN f
        ELSE Returned(Max2(ScoreFloor, Min2(ScoreCeiling, f.val)))

\* the clamped score of every dimension, in the template's order
ClampedScores(r, sc) ==
    [i \in 1..Len(r.dimensions) |->
        clamp_score(Get(sc, r.dimensions[i], Num(0)))]

\* total += clamp_score(scores.get(dim, 0.0)) * rule.weights[dim]; round(total, 2)
compute_weighted_score(r, sc) ==
    LET cl == ClampedScores(r, sc)
        bad == {i \in 1..Len(cl) : cl[i].exc # "none"}
    IN  IF bad # {} THEN Raised(cl[SetMin(bad)].exc)
        ELSE Returned(Round2(
                SeqSum([i \in 1..Len(cl) |->
                    cl[i].val * r.weights[r.dimensions[i]]]) \div 100))

\* determine_outcome with the comparison written final_score > min_score
determine_outcome_strict(r, final_score) ==
    LET th == r.thresholds
        hits == {i \in 1..Len(th.items) : final_score > th.items[i][1]}
    IN  IF th.t # "list" THEN Raised("TypeError")
        ELSE IF hits # {} THEN Returned(th.items[SetMin(hits)][2])
        ELSE IF th.items = <<>> THEN Raised("IndexError")
        ELSE Returned(th.items[Len(th.items)][2])

\* for min_score, label in rule.thresholds: first entry with final_score >=
\* min_score; rule.thresholds[-1][1] when the loop ends without a return.
\* Iterating a dict yields its keys: the key "go" unpacks into ("g", "o") and
\* final_score >= "g" raises TypeError; a key that is not two characters long
\* fails to unpack (ValueError); an empty dict falls through to
\* thresholds[-1] (KeyError), an empty list to IndexError.
determine_outcome(r, final_score) ==
    LET th == r.thresholds
    IN  IF th.t = "list" THEN
            LET hits == {i \in 1..Len(th.items) : final_score >= th.items[i][1]}
            IN  IF hits # {} THEN Returned(th.items[SetMin(hits)][2])
                ELSE IF th.items = <<>> THEN Raised("IndexError")
                ELSE Returned(th.items[Len(th.items)][2])
        ELSE IF th.keys = <<>> THEN Raised("KeyError")
        ELSE IF th.keys[1] \in {"go"} THEN Raised("TypeError")
        ELSE Raised("ValueError")

confidence_band(score) ==
    IF score >= 8000 THEN "HIGH"
    ELSE IF score >= 6000 THEN "MEDIUM"
    ELSE "LOW"

---------------------------------------------------------------------------
(* app.py: the scenario stress test of Finalize *)

\* _clamp_0_10 without its upper bound
clamp_0_10_no_ceiling(x) == Max2(0, x)

\* max(0.0, min(10.0, float(x)))
clamp_0_10(x) == Max2(0, Min2(10000, x))

\* one entry of scenario_results
ScenarioResult(r, score) ==
    [score |-> score,
     outcome |-> determine_outcome(r, score).val,
     confidence |-> confidence_band(score)]

\* scenario_stress_test, from the final score and the three deltas
scenario_stress_test(r, final_score, best_delta, expected_delta, worst_delta) ==
    LET expected_score == clamp_0_10(final_score + expected_delta)
        best_score == clamp_0_10(final_score + best_delta)
        worst_score == clamp_0_10(final_score + worst_delta)
    IN  [expected_delta |-> expected_delta,
         best_delta |-> best_delta,
         worst_delta |-> worst_delta,
         results |-> [expected |-> ScenarioResult(r, expected_score),
                      best |-> ScenarioResult(r, best_score),
                      worst |-> ScenarioResult(r, worst_score)],
         spread |-> Round2(best_score - worst_score)]

---------------------------------------------------------------------------
(* The inputs of the scoring engine *)

MaxCustomDims == 2
MaxThresholds == 3

\* the template builder's widgets: key, dimensions, one weight per dimension
\* (min_value 0.1, default 1.0) and the two thresholds (defaults 8.0 and 6.0)
BuilderKeys == {"my_template", "go_no_go"}
BuilderDimNames == <<"Value", "Feasibility", "Risk">>
BuilderDims ==
    {SubSeq(BuilderDimNames, 1, n) :
        n \in 1..Min2(MaxCustomDims, Len(BuilderDimNames))}
BuilderWeights == {10, 100}
BuilderThresholds == {6000, 8000}

DimSet(r) == {r.dimensions[i] : i \in 1..Len(r.dimensions)}

\* data/custom_templates.json: absent, or holding one template the builder saved
NoFile == EmptyMap
CustomFiles ==
    {NoFile} \cup
    UNION {UNION {
        {[k \in {key} |-> BuilderTemplate(key, dims, w, go, review)] :
            go \in BuilderThresholds, review \in BuilderThresholds} :
        w \in [{dims[i] : i \in 1..Len(dims)} -> BuilderWeights]} :
        key \in BuilderKeys, dims \in BuilderDims}

\* a template written in code like the built-in ones, with any list of
\* thresholds; the labels name the positions
PositionLabels == <<"FIRST", "SECOND", "THIRD", "FOURTH", "FIFTH">>
ThresholdMins == {0, 6000, 7500}
ThresholdLists ==
    UNION {{[i \in 1..n |-> <<m[i], PositionLabels[i]>>] :
                m \in [1..n -> ThresholdMins]} :
           n \in 0..Min2(MaxThresholds, Len(PositionLabels))}
AuthoredRules ==
    {TemplateRule("authored", <<"Value">>, WeightsOf(<<"Value">>, <<100>>),
                  ThresholdList(items)) : items \in ThresholdLists}

\* every template an evaluation can be handed
Rules ==
    AuthoredRules \cup
    UNION {{get_all_templates(f)[k] : k \in DOMAIN get_all_templates(f)} :
           f \in CustomFiles}

\* a score: below the scale, inside it, above it, or not a number; a
\* dimension may also be absent from the mapping
ScoreValues == {Num(-2000), Num(6500), Num(13000), NonNumeric}
ScoreMaps(r) == UNION {[present -> ScoreValues] : present \in SUBSET DimSet(r)}

\* the three scenario deltas: free signed numbers
Deltas == {-2000, 1005, 12000}

---------------------------------------------------------------------------
(* Evaluation: the computation of Finalize, from the scores to the stress test *)

Pending == [exc |-> "pending", have |-> {}]

\* the call that raised ends the handler; what was computed before it is kept
Failed(at, exc, have, final_score) ==
    [exc |-> exc, at |-> at, have |-> have, final_score |-> final_score]

Evaluated(final_score, outcome, confidence, sst) ==
    [exc |-> "none", have |-> {"final_score", "outcome", "stress_test"},
     final_score |-> final_score, outcome |-> outcome,
     confidence |-> confidence, scenario_stress_test |-> sst]

Finalize(r, sc, best_delta, expected_delta, worst_delta) ==
    LET fs == compute_weighted_score(r, sc)
        oc == determine_outcome(r, fs.val)
    IN  IF fs.exc # "none" THEN Failed("compute_weighted_score", fs.exc, {}, 0)
        ELSE IF oc.exc # "none"
             THEN Failed("determine_outcome", oc.exc, {"final_score"}, fs.val)
        ELSE Evaluated(fs.val, oc.val, confidence_band(fs.val),
                 scenario_stress_test(r, fs.val, best_delta, expected_delta,
                                      worst_delta))

Evaluate ==
    /\ evaluation = Pending
    /\ \E best_delta \in Deltas, expected_delta \in Deltas, worst_delta \in Deltas :
          evaluation' = Finalize(rule, scores, best_delta, expected_delta,
                                 worst_delta)
    /\ UNCHANGED <<rule, scores>>
    /\ UNCHANGED <<readinessVars, reviewVars, historyVars, homeVars>>

ScoringInit ==
    /\ rule \in Rules
    /\ scores \in ScoreMaps(rule)
    /\ evaluation = Pending
    /\ ReadinessIdle
    /\ ReviewIdle
    /\ HistoryIdle
    /\ HomeIdle

ScoringNext == Evaluate

SpecScoring == ScoringInit /\ [][ScoringNext]_vars

---------------------------------------------------------------------------
(* Claims about the scoring engine, checked under SpecScoring *)

\* C1: for every template (built-in or user-defined, with any positive
\* weights) and every score vector, compute_weighted_score returns a value
\* in [0,10].
C1_WeightedScoreInRange ==
    "final_score" \in evaluation.have =>
        (evaluation.final_score >= 0 /\ evaluation.final_score <= 10000)

\* label is what the claim's rule picks for score from a list of thresholds:
\* the label of the first entry whose minimum is <= score, the last entry's
\* label when no entry matches
FirstMatchOrLast(items, score, label) ==
    \/ \E i \in 1..Len(items) :
          /\ items[i][1] <= score
          /\ \A j \in 1..(i - 1) : items[j][1] > score
          /\ label = items[i][2]
    \/ /\ \A i \in 1..Len(items) : items[i][1] > score
       /\ label = items[Len(items)][2]

\* C2: for every template with a non-empty threshold list and every final
\* score, determine_outcome returns the label of the first threshold, in
\* authored order, whose minimum is <= the score, and the last threshold's
\* label when none matches (for the final score and the three scenario scores).
C2_OutcomeIsFirstMatchingThreshold ==
    (evaluation.exc = "none" /\ rule.thresholds.t = "list"
        /\ rule.thresholds.items # <<>>) =>
        LET items == rule.thresholds.items
            res == evaluation.scenario_stress_test.results
        IN  /\ FirstMatchOrLast(items, evaluation.final_score, evaluation.outcome)
            /\ \A sc \in {res.best, res.expected, res.worst} :
                  FirstMatchOrLast(items, sc.score, sc.outcome)

\* C2 witness: thresholds not in descending order; the first entry matches and
\* is returned although a later entry with a higher minimum matches too
C2_Witness ==
    /\ evaluation.exc = "none"
    /\ rule.thresholds.t = "list"
    /\ Len(rule.thresholds.items) >= 2
    /\ rule.thresholds.items[1][1] < rule.thresholds.items[2][1]
    /\ rule.thresholds.items[2][1] <= evaluation.final_score
    /\ evaluation.outcome = rule.thresholds.items[1][2]

\* C3: a custom template saved by the template builder (thresholds stored as
\* a map with the keys go and review) and merged into the registry can be
\* evaluated: the evaluation never fails and yields GO when score >= go,
\* REVIEW / REVISE when score >= review, NO-GO otherwise.
C3_CustomTemplateEvaluates ==
    (rule.thresholds.t = "dict" /\ "final_score" \in evaluation.have) =>
        /\ evaluation.exc = "none"
        /\ evaluation.outcome =
              IF evaluation.final_score >= rule.thresholds.vals[1] THEN "GO"
              ELSE IF evaluation.final_score >= rule.thresholds.vals[2]
                   THEN "REVIEW / REVISE"
              ELSE "NO-GO"

\* C9: in the scenario stress test the best, expected and worst scores each
\* lie in [0,10], and the spread is best_score - worst_score rounded to 2
\* decimals (negative when the worst delta exceeds the best delta).
C9_ScenarioScoresClampedSpreadIsDifference ==
    evaluation.exc = "none" =>
        LET sst == evaluation.scenario_stress_test
            res == sst.results
        IN  /\ \A sc \in {res.best, res.expected, res.worst} :
                  sc.score >= 0 /\ sc.score <= 10000
            /\ sst.spread = Round2(res.best.score - res.worst.score)
            /\ (sst.worst_delta > sst.best_delta => sst.spread <= 0)

\* C9 witness: the worst delta pushes the raw sum above 10 and exceeds the
\* best delta, so the spread is negative
C9_Witness ==
    /\ evaluation.exc = "none"
    /\ evaluation.final_score + evaluation.scenario_stress_test.worst_delta > 10000
    /\ evaluation.final_score + evaluation.scenario_stress_test.best_delta < 10000
    /\ evaluation.scenario_stress_test.spread < 0

---------------------------------------------------------------------------
(* engine/readiness.py *)

ReadinessResult(score, status, min_required, issues, blockers) ==
    [score |-> score, status |-> status, min_required |-> min_required,
     issues |-> issues, blockers |-> blockers]

\* _empty: None, a blank str, or a list with no non-blank item
_empty(x) ==
    CASE x.t = "none" -> TRUE
      [] x.t = "str" -> Strip(x.s) = ""
      [] x.t = "list" -> \A i \in 1..Len(x.items) : Strip(x.items[i]) = ""
      [] OTHER -> FALSE

\* _confidence_to_number with medium given the number of high
_confidence_to_number_medium_as_high(conf) ==
    IF conf.t = "num" THEN conf.n
    ELSE LET c == IF conf.t = "str" THEN Lower(Strip(conf.s)) ELSE "none"
         IN  IF c \in {"high", "h", "medium", "med", "m"} THEN 85
             ELSE IF c \in {"low", "l"} THEN 55
             ELSE 70

\* _confidence_to_number: a number as it is; otherwise by the lower-cased name
_confidence_to_number(conf) ==
    IF conf.t = "num" THEN conf.n
    ELSE LET c == IF conf.t = "str" THEN Lower(Strip(conf.s)) ELSE "none"
         IN  IF c \in {"high", "h"} THEN 85
             ELSE IF c \in {"medium", "med", "m"} THEN 70
             ELSE IF c \in {"low", "l"} THEN 55
             ELSE 70

OwnerMissing == "Decision owner is missing (accountability not defined)."
WeightsMissing == "Template weights are missing/invalid (cannot evaluate reliably)."
WeightsInvalid == "Invalid weights (<=0) found"
OneWayNeedsRisks == "One-way decisions require explicit risks/unknowns."
AccountabilityRequired == "Accountability confirmation is required to approve."

\* the weights check of Pillar 1: the blockers it adds, or the exception of
\* float(v) on the first weight that is no number
WeightsBlockers(weights) ==
    IF weights.t # "dict" \/ DOMAIN weights.items = {}
    THEN Returned(<<WeightsMissing>>)
    ELSE LET fl == [k \in DOMAIN weights.items |-> Float(weights.items[k])]
             failing == {k \in DOMAIN fl : fl[k].exc # "none"}
             bad == {k \in DOMAIN fl : fl[k].exc = "none" /\ fl[k].val <= 0}
         IN  IF failing # {} THEN Raised(fl[CHOOSE k \in failing : TRUE].exc)
             ELSE IF bad # {} THEN Returned(<<WeightsInvalid>>)
             ELSE Returned(<<>>)

\* if blockers: score = min(score, 50)
CapOnCoreBlockers_none(blockers, score) == score

CapOnCoreBlockers(blockers, score) ==
    IF blockers # <<>> THEN Min2(score, 50) ELSE score

\* Pillar 4: the minimum bar
MinRequired(decision_type, decision_class) ==
    IF decision_type = PyStr("Strategic") /\ decision_class = PyStr("One-way")
    THEN 75 ELSE 60

\* the status rule written with "and" in place of "or"
ReadinessStatus_and(blockers, score, min_required) ==
    IF blockers # <<>> /\ score < min_required THEN "BLOCK"
    ELSE IF score < 75 THEN "REVIEW"
    ELSE "APPROVE"

ReadinessStatus(blockers, score, min_required) ==
    IF blockers # <<>> \/ score < min_required THEN "BLOCK"
    ELSE IF score < 75 THEN "REVIEW"
    ELSE "APPROVE"

calculate_decision_readiness(d) ==
    LET owner == Get(d, "owner", PyStr(""))
        decision_type == Get(d, "decision_type", PyStr("Strategic"))
        decision_class == Get(d, "decision_class", PyStr("Two-way"))
        stakeholders == Get(d, "stakeholders", PyList(<<>>))
        assumptions == Get(d, "assumptions", PyList(<<>>))
        risks == Get(d, "risks", PyList(<<>>))
        confidence == _confidence_to_number(Get(d, "confidence", PyStr("Medium")))
        weights == Get(d, "weights", PyDict(EmptyMap))
        responsibility_confirmed ==
            Truthy(Get(d, "responsibility_confirmed", PyBool(FALSE)))
        \* Pillar 1: completeness
        wb == WeightsBlockers(weights)
        blockers1 == (IF _empty(owner) THEN <<OwnerMissing>> ELSE <<>>) \o wb.val
        score1 == 100 - (IF _empty(assumptions) THEN 10 ELSE 0)
                      - (IF _empty(stakeholders) THEN 5 ELSE 0)
        issues1 ==
            (IF _empty(assumptions)
             THEN <<"Key assumptions are not documented.">> ELSE <<>>)
            \o (IF _empty(stakeholders)
                THEN <<"Stakeholders not listed (visibility may be incomplete).">>
                ELSE <<>>)
        score2 == CapOnCoreBlockers(blockers1, score1)
        \* Pillar 2: risk awareness
        oneWayBlock == decision_class = PyStr("One-way") /\ _empty(risks)
        twoWayIssue == ~oneWayBlock /\ decision_class = PyStr("Two-way")
                       /\ _empty(risks)
        blockers2 == blockers1 \o (IF oneWayBlock THEN <<OneWayNeedsRisks>> ELSE <<>>)
        score3 == score2 - (IF twoWayIssue THEN 10 ELSE 0)
        issues2 == issues1 \o
            (IF twoWayIssue
             THEN <<"Consider documenting at least one risk/unknown.">> ELSE <<>>)
        \* Pillar 3: confidence integrity
        overRisks == confidence >= 80 /\ _empty(risks)
        overAssumptions == confidence >= 70 /\ _empty(assumptions)
        score4 == score3 - (IF overRisks THEN 20 ELSE 0)
                         - (IF overAssumptions THEN 10 ELSE 0)
        issues3 == issues2
            \o (IF overRisks
                THEN <<"High confidence without documented risks suggests overconfidence.">>
                ELSE <<>>)
            \o (IF overAssumptions
                THEN <<"Confidence should be backed by explicit assumptions.">>
                ELSE <<>>)
        \* Pillar 4: severity thresholds
        min_required == MinRequired(decision_type, decision_class)
        \* Pillar 5: accountability
        blockers3 == blockers2 \o
            (IF ~responsibility_confirmed THEN <<AccountabilityRequired>> ELSE <<>>)
        score == Max2(0, Min2(score4, 100))
    IN  IF wb.exc # "none" THEN Raised(wb.exc)
        ELSE Returned(ReadinessResult(score,
                 ReadinessStatus(blockers3, score, min_required),
                 min_required, issues3, blockers3))

---------------------------------------------------------------------------
(* The inputs of the readiness gate *)

MaxWeightKeys == 2

OwnerValues == {PyNone, PyStr(""), PyStr(" "), PyStr("CEO")}
TypeValues == {PyStr("Strategic"), PyStr("Operational")}
ClassValues == {PyStr("One-way"), PyStr("Two-way"), PyStr("Experimental")}
\* a list of names: empty, one blank entry, one name
ListValues == {PyList(<<>>), PyList(<<" ">>), PyList(<<"Sales">>)}
ConfidenceValues == {PyStr("HIGH"), PyStr("MEDIUM"), PyStr("LOW"), PyStr("n/a")}
\* a weight: positive, zero, or no number
WeightValues == {Num(25), Num(0), NonNumeric}
WeightKeyNames == <<"Value", "Risk", "Urgency">>
WeightKeySets ==
    {{WeightKeyNames[i] : i \in 1..n} :
        n \in 0..Min2(MaxWeightKeys, Len(WeightKeyNames))}
\* the weights argument: not a dict, or a dict of up to MaxWeightKeys weights
WeightsValues ==
    {PyNone} \cup {PyDict(w) : w \in UNION {[ks -> WeightValues] : ks \in WeightKeySets}}

DecisionDict(owner, decision_type, decision_class, stakeholders, assumptions, risks, confidence, weights, responsibility_confirmed) ==
    [owner |-> owner, decision_type |-> decision_type,
     decision_class |-> decision_class, stakeholders |-> stakeholders,
     assumptions |-> assumptions, risks |-> risks, confidence |-> confidence,
     weights |-> weights, responsibility_confirmed |-> responsibility_confirmed]

---------------------------------------------------------------------------
(* The readiness gate on its own *)

Calculate ==
    /\ readiness = Pending
    /\ readiness' = calculate_decision_readiness(decision)
    /\ UNCHANGED decision
    /\ UNCHANGED <<scoringVars, reviewVars, historyVars, homeVars>>

ReadinessInit ==
    /\ \/ decision = EmptyMap
       \/ \E owner \in OwnerValues, decision_type \in TypeValues,
             decision_class \in ClassValues, stakeholders \in ListValues,
             assumptions \in ListValues, risks \in ListValues,
             confidence \in ConfidenceValues, weights \in WeightsValues,
             responsibility_confirmed \in BOOLEAN :
             decision = DecisionDict(owner, decision_type, decision_class,
                            stakeholders, assumptions, risks, confidence,
                            weights, PyBool(responsibility_confirmed))
    /\ readiness = Pending
    /\ ScoringIdle
    /\ ReviewIdle
    /\ HistoryIdle
    /\ HomeIdle

ReadinessNext == Calculate

SpecReadiness == ReadinessInit /\ [][ReadinessNext]_vars

\* the scores with 0.0 in place of a missing or non-numeric value
CoercedScores(r, sc) ==
    [d \in DimSet(r) |->
        IF d \in DOMAIN sc /\ sc[d].t = "num" THEN sc[d] ELSE Num(0)]

\* C20: malformed scoring input is never fatal: compute_weighted_score takes
\* a dimension missing from the scores as 0.0 and a non-numeric score as 0.0,
\* and returns a score instead of raising.
C20_MalformedScoresCountAsZero ==
    evaluation # Pending =>
        /\ "final_score" \in evaluation.have
        /\ evaluation.final_score
              = compute_weighted_score(rule, CoercedScores(rule, scores)).val

---------------------------------------------------------------------------
(* Claims about the readiness gate, checked under SpecReadiness *)

Has(seq, x) == \E i \in 1..Len(seq) : seq[i] = x

\* C4: the returned score is in [0,100]; the status is BLOCK exactly when the
\* blockers list is non-empty or score < min_required, otherwise REVIEW
\* exactly when score < 75, and APPROVE otherwise; any blocker forces BLOCK.
C4_ScoreClampedStatusFromBlockersAndScore ==
    readiness.exc = "none" =>
        LET r == readiness.val
            block == r.blockers # <<>> \/ r.score < r.min_required
        IN  /\ r.score >= 0 /\ r.score <= 100
            /\ r.status \in {"BLOCK", "REVIEW", "APPROVE"}
            /\ (r.status = "BLOCK") <=> block
            /\ (r.status = "REVIEW") <=> (~block /\ r.score < 75)
            /\ (r.status = "APPROVE") <=> (~block /\ r.score >= 75)
            /\ r.blockers # <<>> => r.status = "BLOCK"

\* C4 witness: a blocker forces BLOCK although the score clears every bar
C4_Witness ==
    /\ readiness.exc = "none"
    /\ readiness.val.blockers # <<>>
    /\ readiness.val.score = 100
    /\ readiness.val.status = "BLOCK"

\* C5 as claimed: whenever a blocker of the accountability step (owner
\* missing, accountability not confirmed) or of the weights check exists,
\* the returned score is at most 50.
C5_AnyAccountabilityOrWeightsBlockerCapsScore ==
    (readiness.exc = "none"
        /\ \E b \in {OwnerMissing, AccountabilityRequired, WeightsMissing,
                     WeightsInvalid} : Has(readiness.val.blockers, b)) =>
        readiness.val.score <= 50

\* C5 amended: whenever the owner is missing or the weights check fails, the
\* returned score is at most 50; the accountability-confirmation blocker is
\* added after the cap and does not lower the score.
C5_OwnerOrWeightsBlockerCapsScore ==
    (readiness.exc = "none"
        /\ \E b \in {OwnerMissing, WeightsMissing, WeightsInvalid} :
              Has(readiness.val.blockers, b)) =>
        readiness.val.score <= 50

\* C5 witness: the owner is missing on an otherwise complete decision, and
\* the score is cut from 100 to exactly 50
C5_Witness ==
    /\ readiness.exc = "none"
    /\ readiness.val.blockers = <<OwnerMissing>>
    /\ readiness.val.issues = <<>>
    /\ readiness.val.score = 50

\* C6: calculate_decision_readiness never raises; a weights mapping with a
\* non-numeric value yields a ReadinessResult that reports it as a blocker.
C6_ReadinessNeverRaises ==
    readiness # Pending =>
        /\ readiness.exc = "none"
        /\ (decision # EmptyMap /\ decision.weights.t = "dict"
              /\ (\E k \in DOMAIN decision.weights.items :
                     decision.weights.items[k].t # "num"))
           => readiness.val.blockers # <<>>

\* C8: owner set, accountability confirmed, a non-empty weight map with all
\* weights > 0, assumptions and stakeholders non-empty, class Two-way and
\* confidence MEDIUM give score >= 75 and status APPROVE, with or without
\* risks and for any decision type.
C8_CompleteTwoWayMediumIsApproved ==
    (/\ readiness # Pending
     /\ decision # EmptyMap
     /\ ~_empty(decision.owner)
     /\ decision.responsibility_confirmed = PyBool(TRUE)
     /\ decision.weights.t = "dict"
     /\ DOMAIN decision.weights.items # {}
     /\ \A k \in DOMAIN decision.weights.items :
           decision.weights.items[k].t = "num" /\ decision.weights.items[k].n > 0
     /\ ~_empty(decision.assumptions)
     /\ ~_empty(decision.stakeholders)
     /\ decision.decision_class = PyStr("Two-way")
     /\ decision.confidence = PyStr("MEDIUM")) =>
        /\ readiness.exc = "none"
        /\ readiness.val.score >= 75
        /\ readiness.val.status = "APPROVE"

\* C8 witness: such a decision with no risks documented is approved at 90
C8_Witness ==
    /\ readiness.exc = "none"
    /\ decision # EmptyMap
    /\ ~_empty(decision.owner)
    /\ decision.responsibility_confirmed = PyBool(TRUE)
    /\ ~_empty(decision.assumptions)
    /\ ~_empty(decision.stakeholders)
    /\ decision.decision_class = PyStr("Two-way")
    /\ decision.confidence = PyStr("MEDIUM")
    /\ _empty(decision.risks)
    /\ decision.decision_type = PyStr("Strategic")
    /\ readiness.val.score = 90
    /\ readiness.val.status = "APPROVE"

---------------------------------------------------------------------------
(* app.py, page_home: the Review tab *)

\* [x.strip() for x in text.splitlines() if x.strip()]; a text is its lines
StrippedLines(text) ==
    LET kept == SelectSeq(text, LAMBDA x : Strip(x) # "")
    IN  [i \in 1..Len(kept) |-> Strip(kept[i])]

\* scores = {dim: float(st.session_state.get(f"score_{dim}", 5.0)) ...}
SessionScores(r, ss) ==
    [d \in DimSet(r) |-> Num(Get(ss.scores, d, 5000))]

\* "confidence": preview_final scaled to 0..100 in place of the band
ReviewDecision_score_as_confidence(all_templates, ss) ==
    LET r == all_templates[ss.tpl_select]
        preview_final == compute_weighted_score(r, SessionScores(r, ss)).val
    IN  DecisionDict(PyStr(Strip(ss.decision_owner)), ss.decision_type,
            ss.decision_class, PyList(StrippedLines(ss.stakeholders_text)),
            PyList(StrippedLines(ss.assumptions_text)),
            PyList(StrippedLines(ss.unknowns_text)),
            Num(preview_final \div 100),
            PyDict([d \in DOMAIN r.weights |-> Num(r.weights[d])]),
            PyBool(ss.responsibility_confirmed))

\* the dict the Review tab hands to calculate_decision_readiness
ReviewDecision(all_templates, ss) ==
    LET r == all_templates[ss.tpl_select]
        preview_final == compute_weighted_score(r, SessionScores(r, ss)).val
        preview_conf == confidence_band(preview_final)
    IN  DecisionDict(PyStr(Strip(ss.decision_owner)), ss.decision_type,
            ss.decision_class, PyList(StrippedLines(ss.stakeholders_text)),
            PyList(StrippedLines(ss.assumptions_text)),
            PyList(StrippedLines(ss.unknowns_text)),
            PyStr(preview_conf),
            PyDict([d \in DOMAIN r.weights |-> Num(r.weights[d])]),
            PyBool(ss.responsibility_confirmed))

\* data/custom_templates.json of the session: the builder's default template
SessionCustomFile ==
    [k \in {"my_template"} |->
        BuilderTemplate("my_template", <<"Value", "Feasibility">>,
            WeightsOf(<<"Value", "Feasibility">>, <<100, 100>>), 8000, 6000)]
ALL_TEMPLATES == get_all_templates(SessionCustomFile)

ReviewReadiness(ss) ==
    calculate_decision_readiness(ReviewDecision(ALL_TEMPLATES, ss))

\* the widgets' values
OwnerTexts == {"", " ", "CEO"}
TextValues == {<<>>, <<" ">>, <<"Sales">>}
\* slider positions, 0.0 to 10.0 in steps of 0.5
SliderValues == {3000, 6000, 9500}
\* the slider settings: one dimension at one position, the others at another
SliderSettings(k) ==
    LET dims == ALL_TEMPLATES[k].dimensions
    IN  {[d \in DimSet(ALL_TEMPLATES[k]) |-> IF d = dims[1] THEN a ELSE b] :
            a \in SliderValues, b \in SliderValues}

Session(owner, confirmed, decision_type, decision_class, stakeholders, assumptions, unknowns, tpl, sc) ==
    [decision_owner |-> owner, responsibility_confirmed |-> confirmed,
     decision_type |-> decision_type, decision_class |-> decision_class,
     stakeholders_text |-> stakeholders, assumptions_text |-> assumptions,
     unknowns_text |-> unknowns, tpl_select |-> tpl, scores |-> sc]

\* a run of the page: the Review tab computes the readiness of the session
Review ==
    /\ review_readiness = Pending
    /\ review_readiness' = ReviewReadiness(session)
    /\ UNCHANGED session
    /\ UNCHANGED <<scoringVars, readinessVars, historyVars, homeVars>>

\* the sliders are moved and the page runs again
Rescore ==
    /\ review_readiness # Pending
    /\ \E sc \in SliderSettings(session.tpl_select) :
          /\ sc # session.scores
          /\ session' = [session EXCEPT !.scores = sc]
          /\ review_readiness' = ReviewReadiness(session')
    /\ UNCHANGED <<scoringVars, readinessVars, historyVars, homeVars>>

ReviewInit ==
    /\ \E owner \in OwnerTexts, confirmed \in BOOLEAN,
          decision_type \in TypeValues, decision_class \in ClassValues,
          stakeholders \in TextValues, assumptions \in TextValues,
          unknowns \in TextValues, tpl \in DOMAIN ALL_TEMPLATES :
          \E sc \in SliderSettings(tpl) :
             session = Session(owner, confirmed, decision_type, decision_class,
                               stakeholders, assumptions, unknowns, tpl, sc)
    /\ review_readiness = Pending
    /\ ScoringIdle
    /\ ReadinessIdle
    /\ HistoryIdle
    /\ HomeIdle

ReviewNext == Review \/ Rescore

SpecReview == ReviewInit /\ [][ReviewNext]_vars

---------------------------------------------------------------------------
(* Claims about the Review tab, checked under SpecReview *)

\* the confidence band the page derives from a session's slider settings
SessionBand(ss) ==
    confidence_band(compute_weighted_score(ALL_TEMPLATES[ss.tpl_select],
        SessionScores(ALL_TEMPLATES[ss.tpl_select], ss)).val)

---------------------------------------------------------------------------
(* engine/storage.py *)

MaxHistory == 3
DefaultLimit == 200

\* a str whose characters the model keeps, as a sequence of characters
Text(chars) == [t |-> "text", s |-> chars]

\* json.dumps of a value: str, number, None and bool keep their kind; a list
\* and a tuple both become an array, a dict an object, member by member
RECURSIVE ToJson(_)
ToJson(v) ==
    CASE v.t = "str" -> [j |-> "string", s |-> v.s]
      [] v.t = "text" -> [j |-> "string", chars |-> v.s]
      [] v.t = "num" -> [j |-> "number", n |-> v.n]
      [] v.t = "none" -> [j |-> "null"]
      [] v.t = "bool" -> [j |-> "bool", b |-> v.b]
      [] v.t \in {"list", "tuple"} -> [j |-> "array", items |-> v.items]
      [] v.t = "dict" ->
            [j |-> "object",
             members |-> [k \in DOMAIN v.items |-> ToJson(v.items[k])]]

\* json.loads of a value: an array becomes a list, an object a dict
RECURSIVE FromJson(_)
FromJson(x) ==
    CASE x.j = "string" ->
            IF "chars" \in DOMAIN x THEN Text(x.chars) ELSE PyStr(x.s)
      [] x.j = "number" -> Num(x.n)
      [] x.j = "null" -> PyNone
      [] x.j = "bool" -> PyBool(x.b)
      [] x.j = "array" -> PyList(x.items)
      [] x.j = "object" ->
            PyDict([k \in DOMAIN x.members |-> FromJson(x.members[k])])

\* json.dumps(record, ensure_ascii=False): one line of text holding the object
Dumps(record) ==
    [text |-> "json", object |-> [k \in DOMAIN record |-> ToJson(record[k])]]

\* json.loads(line): the dict, or the exception for a line that is no JSON
Loads(line) ==
    IF line.text = "json"
    THEN Returned([k \in DOMAIN line.object |-> FromJson(line.object[k])])
    ELSE Raised("JSONDecodeError")

NoSuchFile == [exists |-> FALSE, lines |-> <<>>]

\* open(path, "w") and one line: whatever the file held is gone
append_jsonl_truncating(f, record) ==
    [exists |-> TRUE, lines |-> <<Dumps(record)>>]

\* open(path, "a") creates the file when it is missing; one line is added
append_jsonl(f, record) ==
    [exists |-> TRUE, lines |-> Append(f.lines, Dumps(record))]

\* rows[-limit:]: the last limit rows for limit >= 1, every row for limit = 0,
\* the rows after the first -limit for limit < 0
LastRows(rows, limit) ==
    LET n == Len(rows)
        from == IF limit = 0 THEN 1
                ELSE IF limit > 0 THEN Max2(1, n - limit + 1)
                ELSE Min2(n, -limit) + 1
    IN  SubSeq(rows, from, n)

\* read_jsonl: [] for a missing file; blank lines and lines that fail to
\* parse are skipped; the last limit rows are returned
read_jsonl(f, limit) ==
    IF ~f.exists THEN <<>>
    ELSE LET kept == SelectSeq(f.lines,
                        LAMBDA line : line.text # "blank"
                                      /\ Loads(line).exc = "none")
         IN  LastRows([i \in 1..Len(kept) |-> Loads(kept[i]).val], limit)

\* overwrite_jsonl: open(path, "w") and one line per row
overwrite_jsonl(f, rows) ==
    [exists |-> TRUE, lines |-> [i \in 1..Len(rows) |-> Dumps(rows[i])]]

\* d[key] = value, and d.setdefault(key, value)
SetItem(d, key, value) ==
    [k \in DOMAIN d \cup {key} |-> IF k = key THEN value ELSE d[k]]
SetDefault(d, key, value) == IF key \in DOMAIN d THEN d ELSE SetItem(d, key, value)

UpdateReadLimit == 5000
DeleteReadLimit == 50000
MigrateReadLimit == 10000000

\* update_decision_outcome that adds a record for an id it does not find
update_decision_outcome_upsert(f, decision_id, outcome, notes, now) ==
    LET rows == read_jsonl(f, UpdateReadLimit)
        hits == {i \in 1..Len(rows) :
                    Get(rows[i], "decision_id", PyNone) = decision_id}
        follow_up == PyDict([outcome |-> PyStr(outcome), notes |-> PyStr(notes),
                             updated_at_utc |-> PyStr(now)])
    IN  IF hits = {}
        THEN [file |-> overwrite_jsonl(f, Append(rows,
                          [decision_id |-> decision_id, follow_up |-> follow_up])),
              result |-> FALSE]
        ELSE [file |-> overwrite_jsonl(f, [rows EXCEPT ![SetMin(hits)] =
                          SetItem(@, "follow_up", follow_up)]),
              result |-> TRUE]

\* update_decision_outcome that stores the follow-up in place of the record
update_decision_outcome_replacing(f, decision_id, outcome, notes, now) ==
    LET rows == read_jsonl(f, UpdateReadLimit)
        hits == {i \in 1..Len(rows) :
                    Get(rows[i], "decision_id", PyNone) = decision_id}
        follow_up == PyDict([outcome |-> PyStr(outcome), notes |-> PyStr(notes),
                             updated_at_utc |-> PyStr(now)])
    IN  IF hits = {} THEN [file |-> f, result |-> FALSE]
        ELSE [file |-> overwrite_jsonl(f, [rows EXCEPT ![SetMin(hits)] =
                          [decision_id |-> decision_id, follow_up |-> follow_up]]),
              result |-> TRUE]

\* update_decision_outcome at time now: [file, result]; the file is rewritten
\* from the rows read only when a row matched
update_decision_outcome(f, decision_id, outcome, notes, now) ==
    LET rows == read_jsonl(f, UpdateReadLimit)
        hits == {i \in 1..Len(rows) :
                    Get(rows[i], "decision_id", PyNone) = decision_id}
    IN  IF hits = {} THEN [file |-> f, result |-> FALSE]
        ELSE LET i == SetMin(hits)
                 follow_up == PyDict([outcome |-> PyStr(outcome),
                                      notes |-> PyStr(notes),
                                      updated_at_utc |-> PyStr(now)])
                 r == SetItem(rows[i], "follow_up", follow_up)
             IN  [file |-> overwrite_jsonl(f, [rows EXCEPT ![i] = r]),
                  result |-> TRUE]

\* str.lower() and str.strip() on a sequence of characters
UpperCase == <<"A", "B", "C", "D", "E", "F", "G", "H", "I", "J", "K", "L", "M", "N", "O", "P", "Q", "R", "S", "T", "U", "V", "W", "X", "Y", "Z">>
LowerCase == <<"a", "b", "c", "d", "e", "f", "g", "h", "i", "j", "k", "l", "m", "n", "o", "p", "q", "r", "s", "t", "u", "v", "w", "x", "y", "z">>
LowerChar(c) ==
    IF \E i \in 1..Len(UpperCase) : UpperCase[i] = c
    THEN LowerCase[CHOOSE i \in 1..Len(UpperCase) : UpperCase[i] = c]
    ELSE c
LowerChars(chars) == [i \in 1..Len(chars) |-> LowerChar(chars[i])]
Whitespace == {" ", "\t", "\n"}
StripChars(chars) ==
    LET inked == {i \in 1..Len(chars) : chars[i] \notin Whitespace}
    IN  IF inked = {} THEN <<>>
        ELSE SubSeq(chars, SetMin(inked),
                    CHOOSE i \in inked : \A j \in inked : j <= i)

\* needle in hay, for str
Contains(hay, needle) ==
    \E i \in 0..(Len(hay) - Len(needle)) :
        SubSeq(hay, i + 1, i + Len(needle)) = needle

\* str(v) for the values a title takes
Str(v) ==
    CASE v.t = "text" -> v.s
      [] v.t = "none" -> <<"N", "o", "n", "e">>

\* delete_decisions_by_title_contains: [file, result]; the file is rewritten
\* from the rows kept only when a row was deleted
delete_decisions_by_title_contains(f, text) ==
    LET rows == read_jsonl(f, DeleteReadLimit)
        text_l == StripChars(LowerChars(text))
        kept == SelectSeq(rows, LAMBDA r :
                    ~(text_l # <<>>
                      /\ Contains(LowerChars(Str(Get(r, "title", Text(<<>>)))),
                                  text_l)))
        deleted == Len(rows) - Len(kept)
    IN  IF rows = <<>> THEN [file |-> f, result |-> 0]
        ELSE [file |-> IF deleted > 0 THEN overwrite_jsonl(f, kept) ELSE f,
              result |-> deleted]

\* delete_legacy_no_id: [file, result]
delete_legacy_no_id(f) ==
    LET rows == read_jsonl(f, DeleteReadLimit)
        kept == SelectSeq(rows, LAMBDA r :
                    Truthy(Get(r, "decision_id", PyNone)))
        deleted == Len(rows) - Len(kept)
    IN  IF rows = <<>> THEN [file |-> f, result |-> 0]
        ELSE [file |-> IF deleted > 0 THEN overwrite_jsonl(f, kept) ELSE f,
              result |-> deleted]

\* the loop body with the owner default assigned instead of set by default
MigratedRow_owner_assigned(r, target_schema_version) ==
    LET r1 == SetItem(r, "schema_version", Num(target_schema_version))
        r2 == SetDefault(r1, "assumptions", PyList(<<>>))
        r3 == SetDefault(r2, "unknowns", PyList(<<>>))
        r4 == SetDefault(r3, "assumptions_notes", PyStr(""))
        r5 == SetDefault(r4, "unknowns_notes", PyStr(""))
        r6 == SetDefault(r5, "scenario_stress_test", PyDict(EmptyMap))
        r7 == SetDefault(r6, "decision_type", PyStr("Unknown"))
        r8 == SetItem(r7, "decision_owner", PyStr(""))
        r9 == SetDefault(r8, "stakeholders", PyList(<<>>))
        r10 == SetDefault(r9, "review_date", PyStr(""))
        fu == Get(r10, "follow_up", PyNone)
    IN  IF fu.t # "dict" THEN r10
        ELSE SetItem(r10, "follow_up",
                PyDict(SetDefault(SetDefault(SetDefault(fu.items,
                    "outcome", PyStr("")), "notes", PyStr("")),
                    "updated_at_utc", PyStr(""))))

\* the body of the loop of migrate_history_schema for one row
MigratedRow(r, target_schema_version) ==
    LET r1 == SetItem(r, "schema_version", Num(target_schema_version))
        r2 == SetDefault(r1, "assumptions", PyList(<<>>))
        r3 == SetDefault(r2, "unknowns", PyList(<<>>))
        r4 == SetDefault(r3, "assumptions_notes", PyStr(""))
        r5 == SetDefault(r4, "unknowns_notes", PyStr(""))
        r6 == SetDefault(r5, "scenario_stress_test", PyDict(EmptyMap))
        r7 == SetDefault(r6, "decision_type", PyStr("Unknown"))
        r8 == SetDefault(r7, "decision_owner", PyStr(""))
        r9 == SetDefault(r8, "stakeholders", PyList(<<>>))
        r10 == SetDefault(r9, "review_date", PyStr(""))
        fu == Get(r10, "follow_up", PyNone)
    IN  IF fu.t # "dict" THEN r10
        ELSE SetItem(r10, "follow_up",
                PyDict(SetDefault(SetDefault(SetDefault(fu.items,
                    "outcome", PyStr("")), "notes", PyStr("")),
                    "updated_at_utc", PyStr(""))))

\* migrate_history_schema that counts every row it writes as updated
migrate_history_schema_counting_all(f, target_schema_version) ==
    LET rows == read_jsonl(f, MigrateReadLimit)
        out_rows == [i \in 1..Len(rows) |->
                        MigratedRow(rows[i], target_schema_version)]
    IN  IF rows = <<>>
        THEN [file |-> f, result |-> [total |-> 0, updated |-> 0, written |-> 0]]
        ELSE [file |-> overwrite_jsonl(f, out_rows),
              result |-> [total |-> Len(rows), updated |-> Len(out_rows),
                          written |-> Len(out_rows)]]

\* migrate_history_schema: [file, result]; every row read_jsonl returns is a
\* dict, so each one is written back
migrate_history_schema(f, target_schema_version) ==
    LET rows == read_jsonl(f, MigrateReadLimit)
        updated == Cardinality({i \in 1..Len(rows) :
                        Get(rows[i], "schema_version", PyNone)
                            # Num(target_schema_version)})
        out_rows == [i \in 1..Len(rows) |->
                        MigratedRow(rows[i], target_schema_version)]
    IN  IF rows = <<>>
        THEN [file |-> f, result |-> [total |-> 0, updated |-> 0, written |-> 0]]
        ELSE [file |-> overwrite_jsonl(f, out_rows),
              result |-> [total |-> Len(rows), updated |-> updated,
                          written |-> Len(out_rows)]]

---------------------------------------------------------------------------
(* The history store: appends and reads *)

\* the records of the model: a few fields of a decision record
RecordIds == {"dec_a", "dec_b"}
RecordTitles == {"Raise prices", "Hire now"}
Records ==
    {[decision_id |-> PyStr(id), title |-> PyStr(title), final_score |-> Num(7250),
      parent_id |-> parent, stakeholders |-> PyList(<<"Sales", "Finance">>),
      responsibility_confirmed |-> PyBool(TRUE)] :
        id \in RecordIds, title \in RecordTitles,
        parent \in {PyNone, PyStr("dec_a")}}

ReadLimits == {1, 2, DefaultLimit}

AppendRecord ==
    /\ Len(appended) < MaxHistory
    /\ \E record \in Records :
          /\ history_file' = append_jsonl(history_file, record)
          /\ last_call' = [op |-> "append_jsonl", record |-> record]
          /\ appended' = Append(appended, record)
    /\ UNCHANGED <<scoringVars, readinessVars, reviewVars, homeVars>>

ReadHistory ==
    /\ \E limit \in ReadLimits :
          last_call' = [op |-> "read_jsonl", limit |-> limit,
                        rows |-> read_jsonl(history_file, limit)]
    /\ UNCHANGED <<history_file, appended>>
    /\ UNCHANGED <<scoringVars, readinessVars, reviewVars, homeVars>>

AppendReadInit ==
    /\ history_file = NoSuchFile
    /\ last_call = [op |-> "none"]
    /\ appended = <<>>
    /\ ScoringIdle
    /\ ReadinessIdle
    /\ ReviewIdle
    /\ HomeIdle

AppendReadNext == AppendRecord \/ ReadHistory

SpecAppendRead == AppendReadInit /\ [][AppendReadNext]_vars

---------------------------------------------------------------------------
(* Claims about the history store, checked under SpecAppendRead *)

\* C10 as claimed: for every N, appending N records to an empty history and
\* reading it back with read_jsonl returns exactly those N records, in append
\* order and field for field.
C10_ReadReturnsEveryAppendedRecord ==
    last_call.op = "read_jsonl" => last_call.rows = appended

\* C10 amended: after N appends to an empty history, read_jsonl(path, limit)
\* with limit >= 1 returns the last min(N, limit) of those records (all N
\* when N <= limit; limit defaults to 200), in append order and field for
\* field; the history always holds exactly the appended records, in order,
\* so an append leaves the records stored before it unmodified.
C10_ReadReturnsLastLimitAppendedRecords ==
    /\ read_jsonl(history_file, Len(appended) + 1) = appended
    /\ last_call.op = "read_jsonl" =>
          LET n == Len(appended)
              m == Min2(n, last_call.limit)
          IN  /\ Len(last_call.rows) = m
              /\ \A i \in 1..m : last_call.rows[i] = appended[n - m + i]

\* C10 witness: three records were appended and read back with limit 2
C10_Witness ==
    /\ last_call.op = "read_jsonl"
    /\ Len(appended) = 3
    /\ last_call.limit = 2
    /\ last_call.rows = <<appended[2], appended[3]>>
    /\ appended[1] # appended[2]

---------------------------------------------------------------------------
(* The history store: follow-ups, cleanup and migration *)

MaxStored == 2

\* the scoring fields of a record, by the decision it belongs to
CoreFields(id) ==
    CASE id = PyStr("dec_a") ->
            [scores |-> PyDict([Value |-> Num(6500)]), final_score |-> Num(6500),
             outcome |-> PyStr("REVIEW / REVISE"), confidence |-> PyStr("MEDIUM")]
      [] id = PyStr("dec_b") ->
            [scores |-> PyDict([Value |-> Num(8200)]), final_score |-> Num(8200),
             outcome |-> PyStr("PROCEED"), confidence |-> PyStr("HIGH")]
      [] OTHER ->
            [scores |-> PyDict([Value |-> Num(4000)]), final_score |-> Num(4000),
             outcome |-> PyStr("DO NOT PROCEED"), confidence |-> PyStr("LOW")]

\* the fields every record written by this version of the page carries
CurrentFields ==
    [schema_version |-> Num(2), assumptions |-> PyList(<<"Demand holds">>),
     unknowns |-> PyList(<<>>), assumptions_notes |-> PyStr(""),
     unknowns_notes |-> PyStr("churn"),
     scenario_stress_test |-> PyDict([spread |-> Num(3000)]),
     decision_type |-> PyStr("Strategic"), decision_owner |-> PyStr("CEO"),
     stakeholders |-> PyList(<<"Sales">>), review_date |-> PyStr("2026-01-31")]

\* what a record of an earlier version carries of them, with a follow-up
\* that holds the outcome alone
LegacyFields ==
    [schema_version |-> Num(1), decision_owner |-> PyStr("COO"),
     follow_up |-> PyDict([outcome |-> PyStr("Success")])]

\* a stored record; id = PyNone is a record without decision_id
StoredRecord(id, title, shape) ==
    [title |-> Text(title)] @@ CoreFields(id)
        @@ (IF id = PyNone THEN EmptyMap ELSE [decision_id |-> id])
        @@ (IF shape = "current" THEN CurrentFields ELSE LegacyFields)

\* the records a history holds: written by this version of the page, or by
\* an earlier one, with or without decision_id
StoredRecords ==
    {StoredRecord(PyNone, <<"H", "i", "r", "e">>, "legacy"),
     StoredRecord(PyNone, <<"M", "y", " ", "T", "e", "s", "t">>, "legacy"),
     StoredRecord(PyStr("dec_a"), <<"M", "y", " ", "T", "e", "s", "t">>, "legacy"),
     StoredRecord(PyStr("dec_a"), <<"H", "i", "r", "e">>, "current"),
     StoredRecord(PyStr("dec_b"), <<"H", "i", "r", "e">>, "current"),
     StoredRecord(PyStr("dec_b"), <<"M", "y", " ", "T", "e", "s", "t">>, "current")}

RECURSIVE SeqsUpTo(_, _)
SeqsUpTo(S, n) ==
    IF n = 0 THEN {<<>>}
    ELSE LET shorter == SeqsUpTo(S, n - 1)
         IN  shorter \cup {Append(q, x) : q \in shorter, x \in S}

StoredHistories == SeqsUpTo(StoredRecords, MaxStored)

FollowUpIds == {PyNone, PyStr("dec_a"), PyStr("dec_b"), PyStr("dec_x")}
FollowUpOutcomes == {"Failure"}
FollowUpNotes == {"late"}
Timestamps == {"2026-02-01T10:00:00"}
DeleteTexts == {<<"t", "e", "s", "t">>, <<"t", "r", "i", "a", "l">>, <<>>, <<" ">>, <<" ", "T", "e", "s", "t", " ">>}
TargetVersions == {2}

AppendDecision(records) ==
    /\ Len(history_file.lines) < MaxStored
    /\ \E record \in records :
          /\ history_file' = append_jsonl(history_file, record)
          /\ last_call' = [op |-> "append_jsonl", record |-> record]
    /\ UNCHANGED <<appended, scoringVars, readinessVars, reviewVars, homeVars>>

SaveFollowUp(ids, outcomes) ==
    /\ \E decision_id \in ids, outcome \in outcomes,
          notes \in FollowUpNotes, now \in Timestamps :
          LET call == update_decision_outcome(history_file, decision_id,
                                              outcome, notes, now)
          IN  /\ history_file' = call.file
              /\ last_call' = [op |-> "update_decision_outcome",
                               decision_id |-> decision_id, outcome |-> outcome,
                               notes |-> notes, now |-> now,
                               result |-> call.result]
    /\ UNCHANGED <<appended, scoringVars, readinessVars, reviewVars, homeVars>>

DeleteByTitle(texts) ==
    /\ \E text \in texts :
          LET call == delete_decisions_by_title_contains(history_file, text)
          IN  /\ history_file' = call.file
              /\ last_call' = [op |-> "delete_decisions_by_title_contains",
                               text |-> text, result |-> call.result]
    /\ UNCHANGED <<appended, scoringVars, readinessVars, reviewVars, homeVars>>

DeleteLegacy ==
    /\ LET call == delete_legacy_no_id(history_file)
       IN  /\ history_file' = call.file
           /\ last_call' = [op |-> "delete_legacy_no_id", result |-> call.result]
    /\ UNCHANGED <<appended, scoringVars, readinessVars, reviewVars, homeVars>>

Migrate ==
    /\ \E target \in TargetVersions :
          LET call == migrate_history_schema(history_file, target)
          IN  /\ history_file' = call.file
              /\ last_call' = [op |-> "migrate_history_schema",
                               target |-> target, result |-> call.result]
    /\ UNCHANGED <<appended, scoringVars, readinessVars, reviewVars, homeVars>>

HistoryInit ==
    /\ history_file \in
          {NoSuchFile} \cup {overwrite_jsonl(NoSuchFile, rows) :
                                rows \in StoredHistories}
    /\ last_call = [op |-> "none"]
    /\ appended = <<>>
    /\ ScoringIdle
    /\ ReadinessIdle
    /\ ReviewIdle
    /\ HomeIdle

HistoryNext ==
    \/ AppendDecision(StoredRecords)
    \/ SaveFollowUp(FollowUpIds, FollowUpOutcomes)
    \/ DeleteByTitle(DeleteTexts)
    \/ DeleteLegacy
    \/ Migrate

SpecHistory == HistoryInit /\ [][HistoryNext]_vars

---------------------------------------------------------------------------
(* Claims about follow-ups, cleanup and migration, checked under SpecHistory *)

\* every record a history file holds, in order
Stored(f) == read_jsonl(f, Len(f.lines) + 1)

\* the rows of f that carry the id, by position
Carrying(f, decision_id) ==
    LET rows == Stored(f)
    IN  {i \in 1..Len(rows) : Get(rows[i], "decision_id", PyNone) = decision_id}

\* C11: update_decision_outcome called with an id that no record of the
\* history carries returns False and leaves the stored history exactly as it
\* was.
C11_UnknownIdReturnsFalseHistoryUntouched ==
    [][(last_call'.op = "update_decision_outcome"
            /\ Carrying(history_file, last_call'.decision_id) = {}) =>
          (last_call'.result = FALSE /\ history_file' = history_file)]_vars

\* C11 witness: a follow-up for an unknown id was refused on a history of
\* two records, both still stored
C11_Witness ==
    /\ last_call.op = "update_decision_outcome"
    /\ last_call.decision_id = PyStr("dec_x")
    /\ last_call.result = FALSE
    /\ Len(Stored(history_file)) = 2

\* b is a's record after history operations: every field of b other than
\* follow_up and schema_version is a field of a with the same value
SameRecord(b, a) ==
    \A k \in DOMAIN b \ {"follow_up", "schema_version"} :
        k \in DOMAIN a /\ a[k] = b[k]

\* each row of after is, in order, the record of a row of before
RECURSIVE Survives(_, _)
Survives(after, before) ==
    IF after = <<>> THEN TRUE
    ELSE IF before = <<>> THEN FALSE
    ELSE \/ SameRecord(Head(before), Head(after))
            /\ Survives(Tail(after), Tail(before))
         \/ Survives(after, Tail(before))

\* C13: across every history operation (append, follow-up, delete by title,
\* delete without id, migrate) each record still present keeps the scores,
\* final score, outcome and confidence it was appended with, and every other
\* field but follow_up, schema_version and the defaults migration adds; an
\* appended record is stored as given.
C13_StoredRecordsKeepTheirFields ==
    [][IF last_call'.op = "append_jsonl"
       THEN Stored(history_file') = Append(Stored(history_file), last_call'.record)
       ELSE Survives(Stored(history_file'), Stored(history_file))]_vars

\* C13 witness: a record of an earlier version was given a follow-up and
\* migrated, and still has its scoring fields and owner
C13_Witness ==
    \E i \in 1..Len(Stored(history_file)) :
        LET r == Stored(history_file)[i]
        IN  /\ r.decision_owner = PyStr("COO")
            /\ r.schema_version = Num(2)
            /\ r.follow_up.items = [outcome |-> PyStr("Failure"),
                                    notes |-> PyStr("late"),
                                    updated_at_utc |-> PyStr("2026-02-01T10:00:00")]
            /\ r.final_score = Num(6500)
            /\ r.confidence = PyStr("MEDIUM")

\* C14: migrate_history_schema run twice in a row with the same target is
\* idempotent: the second run leaves the history as the first left it and
\* reports updated = 0 with the same total and written.
C14_SecondMigrationChangesNothing ==
    last_call.op = "migrate_history_schema" =>
        LET second == migrate_history_schema(history_file, last_call.target)
        IN  /\ second.file = history_file
            /\ second.result.updated = 0
            /\ second.result.total = last_call.result.total
            /\ second.result.written = last_call.result.written

\* C14 witness: a migration found nothing to update in a history that holds
\* a migrated record of an earlier version
C14_Witness ==
    /\ last_call.op = "migrate_history_schema"
    /\ last_call.result = [total |-> 2, updated |-> 0, written |-> 2]
    /\ \E i \in 1..2 :
          /\ Stored(history_file)[i].decision_owner = PyStr("COO")
          /\ Stored(history_file)[i].schema_version = Num(last_call.target)

ExpectedFields ==
    {"assumptions", "unknowns", "assumptions_notes", "unknowns_notes",
     "scenario_stress_test", "decision_type", "decision_owner", "stakeholders",
     "review_date"}
FollowUpFields == {"outcome", "notes", "updated_at_utc"}

\* C15: after migrate_history_schema(target) every record has schema_version
\* = target and every expected field (the follow-up sub-fields when it has
\* a follow-up); fields already present keep their values; the number and
\* order of records is unchanged (written = total); updated is the number of
\* records whose schema_version differed from target.
C15_MigrationFillsDefaultsKeepsValues ==
    [][last_call'.op = "migrate_history_schema" =>
          LET before == Stored(history_file)
              after == Stored(history_file')
              res == last_call'.result
          IN  /\ Len(after) = Len(before)
              /\ res.total = Len(before) /\ res.written = res.total
              /\ res.updated = Cardinality({i \in 1..Len(before) :
                    Get(before[i], "schema_version", PyNone)
                        # Num(last_call'.target)})
              /\ \A i \in 1..Len(before) :
                    /\ after[i].schema_version = Num(last_call'.target)
                    /\ ExpectedFields \subseteq DOMAIN after[i]
                    /\ \A k \in DOMAIN before[i] \ {"schema_version", "follow_up"} :
                          after[i][k] = before[i][k]
                    /\ "follow_up" \in DOMAIN before[i] =>
                          /\ FollowUpFields \subseteq DOMAIN after[i].follow_up.items
                          /\ \A k \in DOMAIN before[i].follow_up.items :
                                after[i].follow_up.items[k]
                                    = before[i].follow_up.items[k]
                    /\ DOMAIN after[i] \ DOMAIN before[i]
                          \subseteq ExpectedFields \cup {"schema_version"}]_vars

\* C15 witness: a migration updated one record of two, a record of an
\* earlier version that now has the defaults and its own owner and outcome
C15_Witness ==
    /\ last_call.op = "migrate_history_schema"
    /\ last_call.result = [total |-> 2, updated |-> 1, written |-> 2]
    /\ \E i \in 1..2 :
          LET r == Stored(history_file)[i]
          IN  /\ r.decision_owner = PyStr("COO")
              /\ r.decision_type = PyStr("Unknown")
              /\ r.follow_up.items = [outcome |-> PyStr("Success"),
                                      notes |-> PyStr(""),
                                      updated_at_utc |-> PyStr("")]

---------------------------------------------------------------------------
(* The history store with more records than an operation reads *)

\* a record of a long history: the fields the operations look at, and the
\* scoring fields
LongRecord(id, title) ==
    [decision_id |-> id, title |-> Text(title)] @@ CoreFields(id)

\* n records: one of dec_a, then records of dec_b, the last one titled My Test
LongHistory(n) ==
    [i \in 1..n |->
        LongRecord(IF i = 1 THEN PyStr("dec_a") ELSE PyStr("dec_b"),
                   IF i = n THEN <<"M", "y", " ", "T", "e", "s", "t">>
                   ELSE <<"H", "i", "r", "e">>)]

LongHistories ==
    {LongHistory(UpdateReadLimit + 1), LongHistory(DeleteReadLimit + 1)}

BulkFollowUpIds == {PyStr("dec_a"), PyStr("dec_b")}
BulkDeleteTexts == {<<"t", "e", "s", "t">>}

BulkHistoryInit ==
    /\ history_file \in
          {overwrite_jsonl(NoSuchFile, rows) :
              rows \in StoredHistories \cup LongHistories}
    /\ last_call = [op |-> "none"]
    /\ appended = <<>>
    /\ ScoringIdle
    /\ ReadinessIdle
    /\ ReviewIdle
    /\ HomeIdle

BulkHistoryNext ==
    \/ SaveFollowUp(BulkFollowUpIds, FollowUpOutcomes)
    \/ DeleteByTitle(BulkDeleteTexts)
    \/ DeleteLegacy

SpecBulkHistory == BulkHistoryInit /\ [][BulkHistoryNext]_vars

---------------------------------------------------------------------------
(* Claims about histories of any length, checked under SpecBulkHistory *)

\* C12: for a history of any length containing the id, update_decision_outcome
\* returns True and sets follow_up = {outcome, notes, current timestamp} on
\* the first record with that id; every other record is still in the
\* history, unchanged and in the same order; none is added or removed.
C12_FollowUpChangesOneRecordOnly ==
    [][(last_call'.op = "update_decision_outcome"
            /\ Carrying(history_file, last_call'.decision_id) # {}) =>
          LET before == Stored(history_file)
              after == Stored(history_file')
              first == SetMin(Carrying(history_file, last_call'.decision_id))
              follow_up == PyDict([outcome |-> PyStr(last_call'.outcome),
                                   notes |-> PyStr(last_call'.notes),
                                   updated_at_utc |-> PyStr(last_call'.now)])
          IN  /\ last_call'.result = TRUE
              /\ Len(after) = Len(before)
              /\ \A i \in 1..Len(before) :
                    after[i] = IF i = first
                               THEN SetItem(before[i], "follow_up", follow_up)
                               ELSE before[i]]_vars

\* the title of r contains text, case-insensitively
TitleContains(r, text) ==
    Contains(LowerChars(Str(Get(r, "title", Text(<<>>)))), LowerChars(text))

\* C16: for a history of any length, delete_decisions_by_title_contains(text)
\* removes exactly the records whose title contains text case-insensitively
\* (none when text is empty or blank) and returns their number, and
\* delete_legacy_no_id does the same for the records without decision_id;
\* every other record stays, unchanged and in the same order.
C16_DeleteRemovesExactlyTheMatches ==
    [][LET before == Stored(history_file)
           after == Stored(history_file')
       IN  /\ last_call'.op = "delete_decisions_by_title_contains" =>
                LET text == last_call'.text
                    kept == SelectSeq(before, LAMBDA r :
                                StripChars(text) = <<>> \/ ~TitleContains(r, text))
                IN  after = kept /\ last_call'.result = Len(before) - Len(kept)
           /\ last_call'.op = "delete_legacy_no_id" =>
                LET kept == SelectSeq(before, LAMBDA r :
                                Truthy(Get(r, "decision_id", PyNone)))
                IN  after = kept /\ last_call'.result = Len(before) - Len(kept)]_vars


---------------------------------------------------------------------------
(* app.py, page_home: presets, demo mode, Finalize and revised versions *)

MaxSaved == 3
MaxStakeholderLines == 1

ENGINE_VERSION == "0.1.0"
RULESET_VERSION == "0.1.0"

\* new_id: "dec_" and twelve hex digits of a fresh uuid4; two calls are taken
\* never to draw the same digits, and the n-th id drawn is written dec_n
new_id(issued) == "dec_" \o ToString(Cardinality(issued) + 1)

\* the template the session works with, and the owner the user may type
HomeTemplate == "go_no_go"
HomeOwners == {"", "CEO"}

\* the keys of st.session_state that the form's widgets own, as the widgets
\* leave them on the first run of the page
FirstRun ==
    Session("", FALSE, PyStr("Strategic"), PyStr("Two-way"), <<>>, <<>>, <<>>,
            HomeTemplate, [d \in DimSet(ALL_TEMPLATES[HomeTemplate]) |-> 5000])
        @@ [decision_title |-> ""]

\* the score a preset gives a dimension: the substring tests of apply_preset
\* on the names of the built-in template's dimensions
PresetScore(dim, current) ==
    CASE dim = "Value" -> 7000
      [] dim = "Feasibility" -> 6500
      [] dim = "Risk" -> 6000
      [] dim = "Urgency" -> 6500
      [] OTHER -> current

\* the same tests in load_demo_decision, with 6.0 for every other dimension
DemoScore(dim) ==
    CASE dim = "Value" -> 7500
      [] dim = "Feasibility" -> 6500
      [] dim = "Risk" -> 5500
      [] OTHER -> 6000

PresetKeys == {"hire", "pricing"}

\* what a preset writes into st.session_state, by key
PresetValues(preset_key) ==
    IF preset_key = "hire"
    THEN [decision_title |-> "Should we hire now or wait? (Next 90 days)",
          decision_type |-> PyStr("Hiring"),
          decision_class |-> PyStr("One-way"),
          stakeholders_text |->
              <<"Hiring Manager", "Finance", "HR", "Operations">>,
          assumptions_text |->
              <<"Workload will remain high for the next 3 months",
                "We can attract qualified candidates within our salary range",
                "The role directly improves delivery speed">>,
          unknowns_text |->
              <<"Time-to-productivity (ramp-up)", "Risk of mis-hire",
                "Impact on current team bandwidth during onboarding">>]
    ELSE [decision_title |-> "Should we raise prices now?",
          decision_type |-> PyStr("Strategic"),
          decision_class |-> PyStr("Experimental"),
          stakeholders_text |->
              <<"Sales", "Finance", "Product", "Customer Success">>,
          assumptions_text |->
              <<"Customers perceive strong enough value at higher price",
                "Competitors will not undercut aggressively",
                "We can communicate the change clearly">>,
          unknowns_text |->
              <<"Price sensitivity by segment", "Churn risk",
                "Impact on new customer acquisition conversion">>]

\* apply_preset on the session state ss: the governance defaults, the
\* preset's texts and the score defaults; the owner is kept
apply_preset(preset_key, ss) ==
    [scores |-> [d \in DOMAIN ss.scores |-> PresetScore(d, ss.scores[d])],
     responsibility_confirmed |-> FALSE]
        @@ PresetValues(preset_key) @@ ss

\* the keys load_demo_decision writes into st.session_state
DemoValues ==
    [decision_title |->
         "DEMO: Should we raise prices by 8% on our top 3 packages?",
     decision_owner |-> "Owner (Demo)",
     responsibility_confirmed |-> TRUE,
     decision_type |-> PyStr("Strategic"),
     decision_class |-> PyStr("Experimental"),
     stakeholders_text |-> <<"Sales", "Finance", "Product", "Customer Success">>,
     assumptions_text |->
         <<"Our differentiation remains strong",
           "We can justify the price change with clear messaging",
           "Competitor pricing is not significantly lower">>,
     unknowns_text |->
         <<"Churn impact on existing customers",
           "Conversion rate impact on new customers",
           "Competitive reaction timing">>]

DemoSession(ss) ==
    [scores |-> [d \in DOMAIN ss.scores |-> DemoScore(d)]] @@ DemoValues @@ ss

\* suggested_stakeholders(decision_type): the roles of the type, then the
\* base roles not yet listed, six at most
suggested_stakeholders(decision_type) ==
    LET base == <<"Finance", "Operations", "Legal/Compliance", "IT/Security">>
        by_type ==
            CASE decision_type = PyStr("Strategic") ->
                    <<"CEO/Founder", "Product", "Sales", "Finance">>
              [] decision_type = PyStr("Financial") ->
                    <<"Finance", "Legal/Compliance">>
              [] decision_type = PyStr("Hiring") ->
                    <<"HR", "Hiring Manager", "Finance">>
              [] decision_type = PyStr("Operational") ->
                    <<"Operations", "IT/Security">>
              [] decision_type = PyStr("Personal") -> <<"Trusted Advisor">>
              [] OTHER -> <<>>
        out == by_type \o SelectSeq(base, LAMBDA x : ~Has(by_type, x))
    IN  SubSeq(out, 1, Min2(6, Len(out)))

\* the fields of a record that the evaluation and the readiness review fill;
\* the texts derived from them (explanation, playbook, validity contract,
\* executive recommendation, stress test) are left out of the model's record
EvaluatedFields(ss, rd, ev) ==
    LET r == ALL_TEMPLATES[ss.tpl_select]
    IN  [schema_version |-> Num(2),
         template_id |-> PyStr(r.template_id),
         decision_type |-> ss.decision_type,
         decision_class |-> ss.decision_class,
         engine_version |-> PyStr(ENGINE_VERSION),
         ruleset_version |-> PyStr(RULESET_VERSION),
         stakeholders |-> PyList(StrippedLines(ss.stakeholders_text)),
         assumptions |-> PyList(StrippedLines(ss.assumptions_text)),
         unknowns |-> PyList(StrippedLines(ss.unknowns_text)),
         scores |-> PyDict(SessionScores(r, ss)),
         final_score |-> Num(ev.final_score),
         outcome |-> PyStr(ev.outcome),
         confidence |-> PyStr(ev.confidence),
         parent_id |-> PyNone,
         version |-> Num(1),
         readiness_score |-> Num(rd.score),
         readiness_status |-> PyStr(rd.status),
         readiness_min_required |-> Num(rd.min_required),
         readiness_blockers |-> PyList(rd.blockers),
         readiness_issues |-> PyList(rd.issues),
         responsibility_confirmed |-> PyBool(ss.responsibility_confirmed)]

\* the record the Finalize handler builds
FinalRecord(ss, rd, ev, id, now) ==
    [decision_id |-> PyStr(id),
     timestamp_utc |-> PyStr(now),
     title |-> PyStr(IF Strip(ss.decision_title) = "" THEN "Untitled Decision"
                     ELSE Strip(ss.decision_title)),
     decision_owner |-> PyStr(Strip(ss.decision_owner))]
        @@ EvaluatedFields(ss, rd, ev)

\* the record load_demo_decision builds
DemoRecord(ss, rd, ev, now) ==
    [decision_id |-> PyStr("DEMO"),
     timestamp_utc |-> PyStr(now),
     title |-> PyStr(ss.decision_title),
     decision_owner |-> PyStr(ss.decision_owner),
     is_demo |-> PyBool(TRUE)]
        @@ EvaluatedFields(ss, rd, ev)

\* the record "Create a revised version" builds from base, with its parent_id
\* left as the base has it
RevisedRecord_parent_kept(base, id, now) ==
    LET version == Get(base, "version", Num(1)).n + 1
    IN  [decision_id |-> PyStr(id),
         timestamp_utc |-> PyStr(now),
         version |-> Num(version),
         title |-> PyStr(Get(base, "title", PyStr("Untitled")).s
                         \o " (Revised v" \o ToString(version) \o ")"),
         engine_version |-> PyStr(ENGINE_VERSION),
         ruleset_version |-> PyStr(RULESET_VERSION)]
            @@ base

\* the record "Create a revised version" builds from base
RevisedRecord(base, id, now) ==
    LET version == Get(base, "version", Num(1)).n + 1
    IN  [decision_id |-> PyStr(id),
         timestamp_utc |-> PyStr(now),
         parent_id |-> base.decision_id,
         version |-> Num(version),
         title |-> PyStr(Get(base, "title", PyStr("Untitled")).s
                         \o " (Revised v" \o ToString(version) \o ")"),
         engine_version |-> PyStr(ENGINE_VERSION),
         ruleset_version |-> PyStr(RULESET_VERSION)]
            @@ base

\* the evaluation of a run: the scores of the session under its template,
\* with the stress test's default deltas
HomeEvaluation(ss) ==
    LET r == ALL_TEMPLATES[ss.tpl_select]
    IN  Finalize(r, SessionScores(r, ss), 1000, 0, -2000)

\* the ids of the decisions in the history file
IssuedIds == {row.decision_id.s : row \in
                 {read_jsonl(history_file, 0)[i] :
                     i \in 1..Len(read_jsonl(history_file, 0))}}

\* the browser shows the page as its last run left it: "Finalize Decision" is
\* disabled when that run's readiness was BLOCK or the demo was on
FinalizeDisabled == review_readiness.val.status = "BLOCK" \/ demo_mode

\* the user changes the owner or the accountability checkbox in the form;
\* the widgets are disabled in demo mode, and nothing reaches the script
EditForm ==
    /\ ~demo_mode
    /\ \E owner \in HomeOwners, confirmed \in BOOLEAN :
          /\ form' = [form EXCEPT !.decision_owner = owner,
                                  !.responsibility_confirmed = confirmed]
          /\ form' # form
    /\ UNCHANGED <<demo_mode, last_record, reviewVars, historyVars>>
    /\ UNCHANGED <<scoringVars, readinessVars>>

\* "Add suggested stakeholder roles": the form is submitted, the roles are
\* added to the stakeholders already there, and the page runs again
AddStakeholderRoles ==
    /\ ~demo_mode
    /\ Len(form.stakeholders_text) < MaxStakeholderLines
    /\ LET existing == StrippedLines(form.stakeholders_text)
           sugg == suggested_stakeholders(form.decision_type)
       IN  session' = [form EXCEPT !.stakeholders_text = existing \o sugg]
    /\ form' = session'
    /\ review_readiness' = ReviewReadiness(session')
    /\ UNCHANGED <<demo_mode, last_record, historyVars>>
    /\ UNCHANGED <<scoringVars, readinessVars>>

\* a preset button: the preset's values are written, the demo is switched off
\* and the page runs again; the widgets take the values the script wrote
ApplyPreset ==
    /\ \E preset_key \in PresetKeys :
          /\ session' = apply_preset(preset_key, session)
          /\ form' = [k \in DOMAIN form |->
                         IF k = "decision_owner" THEN form[k] ELSE session'[k]]
    /\ demo_mode' = FALSE
    /\ review_readiness' = ReviewReadiness(session')
    /\ UNCHANGED <<last_record, historyVars>>
    /\ UNCHANGED <<scoringVars, readinessVars>>

\* "Try Demo": shown while the demo is off
LoadDemo ==
    /\ ~demo_mode
    /\ session' = DemoSession(session)
    /\ form' = session'
    /\ demo_mode' = TRUE
    /\ review_readiness' = ReviewReadiness(session')
    /\ \E now \in Timestamps :
          last_record' = DemoRecord(session', review_readiness'.val,
                                    HomeEvaluation(session'), now)
    /\ UNCHANGED historyVars
    /\ UNCHANGED <<scoringVars, readinessVars>>

\* "Exit Demo": shown while the demo is on; a demo record is forgotten
ExitDemo ==
    /\ demo_mode
    /\ demo_mode' = FALSE
    /\ last_record' =
          IF last_record # PyNone /\ Truthy(Get(last_record, "is_demo", PyNone))
          THEN PyNone ELSE last_record
    /\ UNCHANGED <<form, reviewVars, historyVars>>
    /\ UNCHANGED <<scoringVars, readinessVars>>

\* "Finalize Decision": the click is possible when the button is enabled in
\* the browser; the form is submitted and the page runs with the submitted
\* values: the readiness is computed from them, the button reports the click,
\* and the handler evaluates, appends the record and keeps it as last_record
FinalizeDecision ==
    /\ ~FinalizeDisabled
    /\ Len(history_file.lines) < MaxSaved
    /\ session' = form
    /\ review_readiness' = ReviewReadiness(session')
    /\ LET ev == HomeEvaluation(session')
       IN  IF review_readiness'.exc # "none" \/ ev.exc # "none"
           THEN /\ last_call' = [op |-> "finalize", result |-> "raised"]
                /\ UNCHANGED <<history_file, appended, last_record>>
           ELSE \E now \in Timestamps :
                   LET record == FinalRecord(session', review_readiness'.val,
                                             ev, new_id(IssuedIds), now)
                   IN  /\ history_file' = append_jsonl(history_file, record)
                       /\ appended' = Append(appended, record)
                       /\ last_record' = record
                       /\ last_call' = [op |-> "finalize", result |-> "saved"]
    /\ UNCHANGED <<demo_mode, form>>
    /\ UNCHANGED <<scoringVars, readinessVars>>

\* "Create a revised version (v2)": shown while the demo is off; the base is
\* st.session_state.last_record, which the handler leaves as it is
CreateRevisedVersion ==
    /\ ~demo_mode
    /\ Len(history_file.lines) < MaxSaved
    /\ IF last_record = PyNone
       THEN /\ last_call' = [op |-> "revise", result |-> "warning"]
            /\ UNCHANGED <<history_file, appended>>
       ELSE \E now \in Timestamps :
               LET revised == RevisedRecord(last_record, new_id(IssuedIds),
                                             now)
               IN  /\ history_file' = append_jsonl(history_file, revised)
                   /\ appended' = Append(appended, revised)
                   /\ last_call' = [op |-> "revise", result |-> "saved"]
    /\ UNCHANGED <<demo_mode, last_record, form, reviewVars>>
    /\ UNCHANGED <<scoringVars, readinessVars>>

\* a session starts on the first run of the Home page, with the history file
\* missing
HomeInit ==
    /\ session = FirstRun
    /\ form = FirstRun
    /\ review_readiness = ReviewReadiness(FirstRun)
    /\ demo_mode = FALSE
    /\ last_record = PyNone
    /\ history_file = NoSuchFile
    /\ last_call = [op |-> "none"]
    /\ appended = <<>>
    /\ ScoringIdle
    /\ ReadinessIdle

HomeNext ==
    \/ EditForm
    \/ AddStakeholderRoles
    \/ ApplyPreset
    \/ LoadDemo
    \/ ExitDemo
    \/ FinalizeDecision
    \/ CreateRevisedVersion

SpecHome == HomeInit /\ [][HomeNext]_vars


---------------------------------------------------------------------------
(* Claims about the Home page's session, checked under SpecHome *)

\* the last record of the history file
LastStored(f) == Stored(f)[Len(Stored(f))]

\* the keys "Create a revised version" writes; every other key is copied
RevisedKeys ==
    {"decision_id", "timestamp_utc", "parent_id", "version", "title",
     "engine_version", "ruleset_version"}

\* C17: every record Finalize appends has parent_id null and version 1; every
\* revision appends, after the records already in the history and without
\* changing them, a copy of its base (the session's last record) that
\* carries an id no stored record has, the base's id as parent_id and the
\* base's version plus one
C17_FinalizeIsVersionOneRevisionLinksToBase ==
    [][history_file' # history_file =>
          LET before == Stored(history_file)
              after == Stored(history_file')
              new == LastStored(history_file')
          IN  /\ after = Append(before, new)
              /\ last_call'.op = "finalize" =>
                    /\ new.parent_id = PyNone
                    /\ new.version = Num(1)
                    /\ new = last_record'
              /\ last_call'.op = "revise" =>
                    /\ \A i \in 1..Len(before) :
                          before[i].decision_id # new.decision_id
                    /\ new.decision_id # last_record.decision_id
                    /\ new.parent_id = last_record.decision_id
                    /\ new.version = Num(last_record.version.n + 1)
                    /\ DOMAIN new = DOMAIN last_record
                    /\ \A k \in DOMAIN last_record \ RevisedKeys :
                          new[k] = last_record[k]
                    /\ last_record' = last_record]_vars

\* a finalized decision and its revision are both in the history
C17_Witness ==
    /\ Len(Stored(history_file)) = 2
    /\ last_call.op = "revise"
    /\ Stored(history_file)[1] = last_record
    /\ Stored(history_file)[1].parent_id = PyNone
    /\ Stored(history_file)[1].version = Num(1)
    /\ Stored(history_file)[2].parent_id = last_record.decision_id
    /\ Stored(history_file)[2].version = Num(2)

\* C18: the history never holds a record with is_demo true, with the decision
\* id "DEMO" or with parent_id "DEMO"
C18_DemoDecisionNeverWritten ==
    \A i \in 1..Len(Stored(history_file)) :
        LET row == Stored(history_file)[i]
        IN  /\ ~Truthy(Get(row, "is_demo", PyNone))
            /\ row.decision_id # PyStr("DEMO")
            /\ row.parent_id # PyStr("DEMO")

\* C19: every record in the history carries a readiness snapshot whose status
\* is REVIEW or APPROVE and whose blockers are empty
C19_NoBlockedDecisionInHistory ==
    \A i \in 1..Len(Stored(history_file)) :
        LET row == Stored(history_file)[i]
        IN  /\ row.readiness_status \in {PyStr("REVIEW"), PyStr("APPROVE")}
            /\ row.readiness_blockers = PyList(<<>>)


\* C30: no two records of the history that name the same parent carry the
\* same version
C30_RevisionsOfOneParentHaveDistinctVersions ==
    LET rows == Stored(history_file)
    IN  \A i \in 1..Len(rows), j \in 1..Len(rows) :
            (i # j /\ rows[i].parent_id # PyNone
                   /\ rows[i].parent_id = rows[j].parent_id)
                => rows[i].version # rows[j].version


---------------------------------------------------------------------------
(* engine/explain.py, engine/playbook.py and app.py: what Finalize derives *)
(* from the scores and the outcome                                         *)

\* sorted(items, key=...) with the ties turned round
StableSort_ties_reversed(items, keys) ==
    LET n == Len(items)
        rank(i) == Cardinality({j \in 1..n :
                       \/ keys[j] < keys[i]
                       \/ keys[j] = keys[i] /\ j > i}) + 1
    IN  [p \in 1..n |-> items[CHOOSE i \in 1..n : rank(i) = p]]

\* sorted(items, key=...): ascending by key, equal keys in their given order; keys[i] is the key of items[i]
StableSort(items, keys) ==
    LET n == Len(items)
        rank(i) == Cardinality({j \in 1..n :
                       \/ keys[j] < keys[i]
                       \/ keys[j] = keys[i] /\ j < i}) + 1
    IN  [p \in 1..n |-> items[CHOOSE i \in 1..n : rank(i) = p]]

\* list(reversed(xs))
Reversed(xs) == [i \in 1..Len(xs) |-> xs[Len(xs) + 1 - i]]

\* xs[:n]
FirstN(xs, n) == SubSeq(xs, 1, Min2(n, Len(xs)))

\* explain_decision: (dimension, clamped score, score * weight) per dimension,
\* sorted by score and by contribution; the first two of each order and of
\* its reverse; a contribution is shown rounded to two places
explain_decision(r, sc) ==
    LET cl == ClampedScores(r, sc)
        bad == {i \in 1..Len(cl) : cl[i].exc # "none"}
        items == [i \in 1..Len(cl) |->
                    [dimension |-> r.dimensions[i], score |-> cl[i].val,
                     contribution |->
                        (cl[i].val * r.weights[r.dimensions[i]]) \div 100]]
        sorted_by_score ==
            StableSort(items, [i \in 1..Len(items) |-> items[i].score])
        sorted_by_contrib ==
            StableSort(items, [i \in 1..Len(items) |-> items[i].contribution])
        Scored(xs) == [i \in 1..Len(xs) |->
                         [dimension |-> xs[i].dimension, score |-> xs[i].score]]
        Weighted(xs) == [i \in 1..Len(xs) |->
                           [dimension |-> xs[i].dimension,
                            weighted |-> Round2(xs[i].contribution)]]
    IN  IF bad # {} THEN Raised(cl[SetMin(bad)].exc)
        ELSE Returned(
            [lowest_dimensions |-> Scored(FirstN(sorted_by_score, 2)),
             highest_dimensions |-> Scored(FirstN(Reversed(sorted_by_score), 2)),
             top_positive_contributors |->
                 Weighted(FirstN(Reversed(sorted_by_contrib), 2)),
             top_negative_contributors |->
                 Weighted(FirstN(sorted_by_contrib, 2))])

\* DEFAULT_ACTIONS.get(d, [...])
DEFAULT_ACTIONS(d) ==
    CASE d = "Value" ->
            <<"Clarify measurable business impact (revenue, cost, time saved).",
              "Validate customer pain with 5-10 interviews.",
              "Define success metrics and a 30-day experiment.">>
      [] d = "Feasibility" ->
            <<"Break into milestones and estimate effort for each.",
              "Identify required skills/tools and fill gaps.",
              "Create a small prototype to reduce uncertainty.">>
      [] d = "Risk" ->
            <<"List top 5 risks (technical, legal, market, delivery).",
              "Add mitigations and owners for each risk.",
              "Run a pre-mortem: why might this fail?">>
      [] d = "Urgency" ->
            <<"Define deadline and what happens if delayed.",
              "Confirm stakeholder priority against other work.",
              "Set a decision date + fast validation plan.">>
      [] OTHER ->
            <<"Define what 'good' looks like for this dimension.",
              "Collect evidence to increase confidence.",
              "Create a small test to improve this score.">>

\* the two flags of build_playbook; the text of a flag is its dimension and
\* score, or the fixed sentence about the outcome
VeryLowFlag(d, s) == [flag |-> "Very low score detected", dimension |-> d, score |-> s]
OutcomeRiskFlag == [flag |-> "Outcome indicates risk"]

\* the labels build_playbook takes to mean rejection or revision
PlaybookRiskOutcomes == {"NO-GO", "REVIEW / REVISE"}

\* build_playbook; sc maps every dimension of r to its score, in r's order
build_playbook(r, sc, final_score, outcome, explanation) ==
    LET lows == explanation.lowest_dimensions
        by_score == StableSort(r.dimensions,
                        [i \in 1..Len(r.dimensions) |-> sc[r.dimensions[i]].n])
        low_dims == IF lows # <<>>
                    THEN FirstN([i \in 1..Len(lows) |-> lows[i].dimension], 3)
                    ELSE FirstN(by_score, 3)
        very_low == SelectSeq(r.dimensions, LAMBDA d : sc[d].n <= 3000)
    IN  [focus_dimensions |-> low_dims,
         actions |-> [i \in 1..Len(low_dims) |->
                        [dimension |-> low_dims[i], score |-> sc[low_dims[i]],
                         recommended_actions |-> DEFAULT_ACTIONS(low_dims[i])]],
         flags |-> [i \in 1..Len(very_low) |->
                      VeryLowFlag(very_low[i], sc[very_low[i]])]
                   \o (IF outcome \in PlaybookRiskOutcomes
                       THEN <<OutcomeRiskFlag>> ELSE <<>>)]

\* the three triples of build_executive_recommendation
ProceedTriple ==
    [headline |-> "Recommendation: Proceed (GO)", tone |-> "good",
     summary |-> "Approve and execute with clear owners, milestones, and risk controls."]
ReviseTriple ==
    [headline |-> "Recommendation: Proceed with revisions (REVIEW)", tone |-> "warn",
     summary |-> "Move forward only after addressing the key blockers and tightening assumptions."]
RejectTriple ==
    [headline |-> "Recommendation: Do not proceed (NO-GO)", tone |-> "bad",
     summary |-> "Stop or redesign the decision. Current risk / feasibility profile is not acceptable."]

\* build_executive_recommendation: the triple chosen by the outcome, the first
\* step of each of the playbook's actions and its first six flags
build_executive_recommendation(outcome, playbook) ==
    (IF outcome = "GO" THEN ProceedTriple
     ELSE IF outcome = "REVIEW" THEN ReviseTriple
     ELSE RejectTriple)
        @@ [next_steps_7d |->
                [i \in 1..Len(FirstN(playbook.actions, 3)) |->
                    [dimension |-> playbook.actions[i].dimension,
                     step |-> playbook.actions[i].recommended_actions[1]]],
            risk_flags |-> FirstN(playbook.flags, 6)]

\* what the handler has when it is through: the evaluation, the explanation,
\* the playbook and the executive recommendation
Advised(ev, explanation, playbook, exec_rec) ==
    [explanation |-> explanation, playbook |-> playbook,
     executive_recommendation |-> exec_rec] @@ ev

\* the Finalize handler from the scores to the executive recommendation, with
\* the stress test's default deltas
Advise(r, sc) ==
    LET ev == Finalize(r, sc, 1000, 0, -2000)
        ex == explain_decision(r, sc)
    IN  IF ev.exc # "none" THEN ev
        ELSE IF ex.exc # "none"
             THEN Failed("explain_decision", ex.exc, ev.have, ev.final_score)
        ELSE LET pb == build_playbook(r, sc, ev.final_score, ev.outcome, ex.val)
             IN  Advised(ev, ex.val, pb,
                     build_executive_recommendation(ev.outcome, pb))

\* the templates of the evaluation: the built-in ones and one written in code
\* with a single dimension
AdviceRules ==
    {TEMPLATES[k] : k \in DOMAIN TEMPLATES} \cup
    {TemplateRule("authored", <<"Value">>, WeightsOf(<<"Value">>, <<100>>),
        ThresholdList(<<<<7500, "FIRST">>, <<6000, "SECOND">>, <<0, "THIRD">>>>))}

\* positions of the score sliders (0.0 to 10.0 in steps of 0.5)
AdviceSliderValues == {2500, 3000, 3500, 7000, 9500}

\* scores = {dim: float(st.session_state.get(f"score_{dim}", 5.0)) ...}
AdviceScores(r) == [DimSet(r) -> {Num(v) : v \in AdviceSliderValues}]

Recommend ==
    /\ evaluation = Pending
    /\ evaluation' = Advise(rule, scores)
    /\ UNCHANGED <<rule, scores>>
    /\ UNCHANGED <<readinessVars, reviewVars, historyVars, homeVars>>

AdviceInit ==
    /\ rule \in AdviceRules
    /\ scores \in AdviceScores(rule)
    /\ evaluation = Pending
    /\ ReadinessIdle
    /\ ReviewIdle
    /\ HistoryIdle
    /\ HomeIdle

AdviceNext == Recommend

SpecAdvice == AdviceInit /\ [][AdviceNext]_vars

---------------------------------------------------------------------------
(* Claims about the explanation, the playbook and the executive            *)
(* recommendation, checked under SpecAdvice                                *)

\* the clamped score and the contribution of dimension d under rule and scores
ClampedOf(d) == clamp_score(scores[d]).val
ContributionOf(d) == (ClampedOf(d) * rule.weights[d]) \div 100

\* the place of dimension d in the template
PlaceOf(d) == CHOOSE i \in 1..Len(rule.dimensions) : rule.dimensions[i] = d

\* C22: each of the four lists has min(2, number of dimensions) entries;
\* lowest_dimensions ascends by clamped score with equal scores in the
\* template's order and holds the lowest scores, highest_dimensions descends
\* by score, top_negative_contributors ascends and top_positive_contributors
\* descends by clamped score x weight
C22_ExplanationListsAreCappedAndOrdered ==
    (evaluation # Pending /\ evaluation.exc = "none") =>
        LET ex == evaluation.explanation
            n == Min2(2, Len(rule.dimensions))
            lowest == ex.lowest_dimensions
            highest == ex.highest_dimensions
            positive == ex.top_positive_contributors
            negative == ex.top_negative_contributors
        IN  /\ Len(lowest) = n /\ Len(highest) = n
            /\ Len(positive) = n /\ Len(negative) = n
            /\ \A i \in 1..n :
                  /\ lowest[i].score = ClampedOf(lowest[i].dimension)
                  /\ highest[i].score = ClampedOf(highest[i].dimension)
                  /\ positive[i].weighted
                        = Round2(ContributionOf(positive[i].dimension))
                  /\ negative[i].weighted
                        = Round2(ContributionOf(negative[i].dimension))
            /\ \A i \in 1..n, j \in 1..n : i < j =>
                  /\ \/ lowest[i].score < lowest[j].score
                     \/ /\ lowest[i].score = lowest[j].score
                        /\ PlaceOf(lowest[i].dimension)
                              < PlaceOf(lowest[j].dimension)
                  /\ highest[i].score >= highest[j].score
                  /\ ContributionOf(negative[i].dimension)
                        <= ContributionOf(negative[j].dimension)
                  /\ ContributionOf(positive[i].dimension)
                        >= ContributionOf(positive[j].dimension)
            /\ \A d \in DimSet(rule) :
                  (\A i \in 1..n : lowest[i].dimension # d) =>
                      \A i \in 1..n :
                         \/ lowest[i].score < ClampedOf(d)
                         \/ /\ lowest[i].score = ClampedOf(d)
                            /\ PlaceOf(lowest[i].dimension) < PlaceOf(d)

\* an explanation of five dimensions where the two lowest scores are equal
C22_Witness ==
    /\ evaluation # Pending /\ evaluation.exc = "none"
    /\ Len(rule.dimensions) = 5
    /\ Len(evaluation.explanation.lowest_dimensions) = 2
    /\ evaluation.explanation.lowest_dimensions[1].score
          = evaluation.explanation.lowest_dimensions[2].score
    /\ evaluation.explanation.highest_dimensions[1].score
          > evaluation.explanation.highest_dimensions[2].score

\* the labels of a built-in template: the top, the middle and the lowest
TopLabel(r) == r.thresholds.items[1][2]
MiddleLabel(r) == r.thresholds.items[2][2]
LowestLabel(r) == r.thresholds.items[3][2]
BuiltIn(r) == r \in {TEMPLATES[k] : k \in DOMAIN TEMPLATES}

\* C23: the playbook has one risk flag for each dimension scored 3 or less
\* and, under a built-in template, the generic risk flag exactly when the
\* outcome is the template's lowest or middle label
C23_PlaybookFlagsLowScoresAndRiskyOutcomes ==
    (evaluation # Pending /\ evaluation.exc = "none") =>
        LET flags == evaluation.playbook.flags
        IN  /\ \A d \in DimSet(rule) :
                  Cardinality({i \in 1..Len(flags) :
                                  flags[i] = VeryLowFlag(d, scores[d])})
                     = IF scores[d].n <= 3000 THEN 1 ELSE 0
            /\ BuiltIn(rule) =>
                  (Has(flags, OutcomeRiskFlag)
                     <=> evaluation.outcome
                            \in {LowestLabel(rule), MiddleLabel(rule)})

\* C24: under a built-in template the top label yields the proceed triple,
\* the middle label the revise triple and the lowest label the reject triple
C24_RecommendationFollowsOutcome ==
    (evaluation # Pending /\ evaluation.exc = "none" /\ BuiltIn(rule)) =>
        LET rec == evaluation.executive_recommendation
            triple == [headline |-> rec.headline, tone |-> rec.tone,
                       summary |-> rec.summary]
        IN  /\ evaluation.outcome = TopLabel(rule) => triple = ProceedTriple
            /\ evaluation.outcome = MiddleLabel(rule) => triple = ReviseTriple
            /\ evaluation.outcome = LowestLabel(rule) => triple = RejectTriple


---------------------------------------------------------------------------
(* engine/analytics.py and the Dashboard page that calls it *)

MaxDashboardRows == 3
DashboardReadLimit == 5000

\* page_dashboard: rows = read_jsonl(HISTORY_PATH, limit=5000), no filter set
DashboardRows(f) == read_jsonl(f, DashboardReadLimit)

\* the history file of a Dashboard run, and the run still to come
DashboardInit(histories) ==
    /\ history_file \in {overwrite_jsonl(NoSuchFile, h) : h \in histories}
    /\ last_call = [op |-> "none"]
    /\ appended = <<>>
    /\ ScoringIdle
    /\ ReadinessIdle
    /\ ReviewIdle
    /\ HomeIdle

\* r.get("parent_id") or r.get("decision_id")
GroupKey(r) ==
    IF Truthy(Get(r, "parent_id", PyNone)) THEN r.parent_id
    ELSE Get(r, "decision_id", PyNone)

\* x.get("version", 1)
VersionOf(x) == Get(x, "version", Num(1))

\* group_by_parent: the rows under each key in their given order, then sorted
\* by version; comparing a version that is no number with a number raises
group_by_parent(rows) ==
    LET keys == {GroupKey(rows[i]) : i \in 1..Len(rows)}
        members(k) == SelectSeq(rows, LAMBDA r : GroupKey(r) = k)
        unordered == {k \in keys :
                         /\ Len(members(k)) > 1
                         /\ \E i \in 1..Len(members(k)) :
                               VersionOf(members(k)[i]).t # "num"}
    IN  IF unordered # {} THEN Raised("TypeError")
        ELSE Returned([k \in keys |->
                StableSort(members(k),
                    [i \in 1..Len(members(k)) |-> VersionOf(members(k)[i]).n])])

\* the histories as far as lineages go: every record has an id of its own; a
\* record is a first version (version 1, or none in a record of an old
\* schema) or the revision of a record before it, one version on
MaxLineageRows == 4
LineageIds == <<"dec_a", "dec_b", "dec_c", "dec_d", "dec_e">>
FirstVersion(id, versioned) ==
    [decision_id |-> PyStr(id), parent_id |-> PyNone]
        @@ (IF versioned THEN [version |-> Num(1)] ELSE EmptyMap)
RevisionOf(base, id) ==
    [decision_id |-> PyStr(id), parent_id |-> base.decision_id,
     version |-> Num(VersionOf(base).n + 1)]
RECURSIVE LineageHistoriesOf(_)
LineageHistoriesOf(n) ==
    IF n = 0 THEN {<<>>}
    ELSE LET shorter == LineageHistoriesOf(n - 1)
         IN  UNION {{Append(h, FirstVersion(LineageIds[n], versioned)) :
                        versioned \in BOOLEAN}
                    \cup {Append(h, RevisionOf(h[i], LineageIds[n])) :
                             i \in 1..Len(h)} : h \in shorter}
LineageHistories ==
    UNION {LineageHistoriesOf(n) :
              n \in 1..Min2(MaxLineageRows, Len(LineageIds))}

\* the Dashboard's "Iteration tracking"
GroupByParent ==
    /\ last_call.op = "none"
    /\ last_call' = [op |-> "group_by_parent",
                     result |-> group_by_parent(DashboardRows(history_file))]
    /\ UNCHANGED <<history_file, appended>>
    /\ UNCHANGED <<scoringVars, readinessVars, reviewVars, homeVars>>

LineageInit == DashboardInit(LineageHistories)

LineageNext == GroupByParent

SpecLineage == LineageInit /\ [][LineageNext]_vars

---------------------------------------------------------------------------
(* Claims about group_by_parent, checked under SpecLineage *)

\* the key of the one group that holds record x
GroupOf(groups, x) ==
    CHOOSE k \in DOMAIN groups : \E i \in 1..Len(groups[k]) : groups[k][i] = x

\* C25: every record is in exactly one group, the one keyed by its parent_id
\* or, without a parent, by its own id; each group ascends by version; two
\* records linked by parent_id, and so all records of one chain, are in the
\* same group
C25_GroupsAreLineagesSortedByVersion ==
    (last_call.op = "group_by_parent" /\ last_call.result.exc = "none") =>
        LET rows == DashboardRows(history_file)
            groups == last_call.result.val
        IN  /\ \A i \in 1..Len(rows) :
                  /\ Cardinality({<<k, p>> \in
                        UNION {{<<k, p>> : p \in 1..Len(groups[k])} :
                                  k \in DOMAIN groups} :
                            groups[k][p] = rows[i]}) = 1
                  /\ GroupOf(groups, rows[i])
                        = (IF rows[i].parent_id # PyNone THEN rows[i].parent_id
                           ELSE rows[i].decision_id)
            /\ \A k \in DOMAIN groups : \A p \in 1..Len(groups[k]) - 1 :
                  VersionOf(groups[k][p]).n <= VersionOf(groups[k][p + 1]).n
            /\ \A i \in 1..Len(rows), j \in 1..Len(rows) :
                  rows[j].parent_id = rows[i].decision_id
                      => GroupOf(groups, rows[i]) = GroupOf(groups, rows[j])


---------------------------------------------------------------------------
(* engine/analytics.py: the follow-up analytics *)

\* str.upper() and str.title() on a sequence of characters: title() starts a
\* word after every character that is no letter
UpperChar(c) ==
    IF \E i \in 1..Len(LowerCase) : LowerCase[i] = c
    THEN UpperCase[CHOOSE i \in 1..Len(LowerCase) : LowerCase[i] = c]
    ELSE c
UpperChars(chars) == [i \in 1..Len(chars) |-> UpperChar(chars[i])]
IsLetter(c) == UpperChar(c) # c \/ LowerChar(c) # c
TitleChars(chars) ==
    [i \in 1..Len(chars) |->
        IF i = 1 \/ ~IsLetter(chars[i - 1]) THEN UpperChar(chars[i])
        ELSE LowerChar(chars[i])]

\* (x or ""): the characters of a str, none for None
OrEmpty(v) == IF v.t = "text" THEN v.s ELSE <<>>

\* the words the analytics compare with
Word_GO == <<"G", "O">>
Word_NO_GO == <<"N", "O", "-", "G", "O">>
Word_REVIEW_REVISE == <<"R", "E", "V", "I", "E", "W", "/", "R", "E", "V", "I", "S", "E">>
Word_Success == <<"S", "u", "c", "c", "e", "s", "s">>
Word_Failure == <<"F", "a", "i", "l", "u", "r", "e">>
Word_High == <<"H", "i", "g", "h">>
Word_Low == <<"L", "o", "w">>
AccuracyGoWords ==
    {<<"P", "R", "O", "C", "E", "E", "D">>,
     <<"P", "R", "O", "C", "E", "E", "D", " ", "U+2705">>,
     <<"Y", "E", "S">>,
     <<"A", "P", "P", "R", "O", "V", "E">>}
AccuracyNoGoWords ==
    {<<"N", "O", " ", "G", "O">>,
     <<"N", "O", "G", "O">>,
     <<"N", "O", "_", "G", "O">>,
     <<"R", "E", "J", "E", "C", "T">>,
     <<"S", "T", "O", "P">>}
AccuracyReviewWords ==
    {<<"R", "E", "V", "I", "E", "W">>,
     <<"R", "E", "V", "I", "S", "E">>,
     <<"R", "E", "V", "I", "E", "W", "/", "R", "E", "V", "I", "S", "E">>,
     <<"H", "O", "L", "D">>}

\* r.get("follow_up") or r.get("followup") or r.get("followUp")
FollowUpOf(r) ==
    IF Truthy(Get(r, "follow_up", PyNone)) THEN r.follow_up
    ELSE IF Truthy(Get(r, "followup", PyNone)) THEN r.followup
    ELSE Get(r, "followUp", PyNone)

\* compute_accuracy_metrics: the predicted outcome, stripped, in capitals and
\* with the synonyms replaced
AccuracyPredicted(r) ==
    LET predicted == UpperChars(StripChars(OrEmpty(Get(r, "outcome", PyNone))))
    IN  IF predicted \in AccuracyGoWords THEN Word_GO
        ELSE IF predicted \in AccuracyNoGoWords THEN Word_NO_GO
        ELSE IF predicted \in AccuracyReviewWords THEN Word_REVIEW_REVISE
        ELSE predicted

\* predicted -> polarity
PredLabel(r) ==
    IF AccuracyPredicted(r) = Word_GO THEN "Positive"
    ELSE IF AccuracyPredicted(r) = Word_NO_GO THEN "Negative"
    ELSE "Mixed"

\* actual -> polarity, from the follow-up's outcome stripped and title-cased
ActualLabel(follow) ==
    LET actual == TitleChars(StripChars(
                      OrEmpty(Get(follow.items, "outcome", PyNone))))
    IN  IF actual = Word_Success THEN "Positive"
        ELSE IF actual = Word_Failure THEN "Negative"
        ELSE "Mixed"

\* the confusion counter of a follow-up, with "and" in place of "or"
ConfusionCell_and(pred_label, actual_label) ==
    IF pred_label = "Mixed" /\ actual_label = "Mixed" THEN "review_bucket"
    ELSE IF pred_label = "Positive" /\ actual_label = "Positive" THEN "tp"
    ELSE IF pred_label = "Positive" /\ actual_label = "Negative" THEN "fp"
    ELSE IF pred_label = "Negative" /\ actual_label = "Negative" THEN "tn"
    ELSE IF pred_label = "Negative" /\ actual_label = "Positive" THEN "fn"
    ELSE "none"

\* the confusion counter a follow-up adds one to
ConfusionCell(pred_label, actual_label) ==
    IF pred_label = "Mixed" \/ actual_label = "Mixed" THEN "review_bucket"
    ELSE IF pred_label = "Positive" /\ actual_label = "Positive" THEN "tp"
    ELSE IF pred_label = "Positive" /\ actual_label = "Negative" THEN "fp"
    ELSE IF pred_label = "Negative" /\ actual_label = "Negative" THEN "tn"
    ELSE IF pred_label = "Negative" /\ actual_label = "Positive" THEN "fn"
    ELSE "none"

\* the calibration counter a follow-up adds one to, if any
CalibrationCell(r, actual_label) ==
    LET conf == TitleChars(StripChars(OrEmpty(Get(r, "confidence", PyNone))))
    IN  IF actual_label \notin {"Positive", "Negative"} THEN "none"
        ELSE IF conf = Word_High /\ actual_label = "Negative"
             THEN "Overconfident"
        ELSE IF conf = Word_Low /\ actual_label = "Positive"
             THEN "Underconfident"
        ELSE "Calibrated"

\* a / b to the nearest whole, halves to the even one
RoundDivEven(a, b) ==
    LET q == a \div b
        rest == 2 * (a % b)
    IN  IF rest > b \/ (rest = b /\ q % 2 = 1) THEN q + 1 ELSE q

\* round(a / b, 3) in thousandths
RoundRatio3(a, b) == RoundDivEven(1000 * a, b)

\* compute_accuracy_metrics
compute_accuracy_metrics(rows) ==
    LET followed == {i \in 1..Len(rows) : Truthy(FollowUpOf(rows[i]))}
        cell(i) == ConfusionCell(PredLabel(rows[i]),
                                 ActualLabel(FollowUpOf(rows[i])))
        calib(i) == CalibrationCell(rows[i], ActualLabel(FollowUpOf(rows[i])))
        count(c) == Cardinality({i \in followed : cell(i) = c})
        total_strict == count("tp") + count("tn") + count("fp") + count("fn")
    IN  [followups_total |-> Cardinality(followed),
         tp |-> count("tp"), fp |-> count("fp"),
         tn |-> count("tn"), fn |-> count("fn"),
         review_bucket |-> count("review_bucket"),
         total_strict |-> total_strict,
         accuracy |-> IF total_strict > 0
                      THEN Num(RoundRatio3(count("tp") + count("tn"),
                                           total_strict))
                      ELSE PyNone,
         calibration |->
             [c \in {"Overconfident", "Underconfident", "Calibrated"} |->
                 Cardinality({i \in followed : calib(i) = c})]]


\* the Dashboard reads the history and, with its filters left at "all",
\* hands every record to the analytics; it stops early on an empty history
ComputeAccuracyMetrics ==
    /\ last_call.op = "none"
    /\ DashboardRows(history_file) # <<>>
    /\ last_call' = [op |-> "compute_accuracy_metrics",
                     result |->
                         compute_accuracy_metrics(DashboardRows(history_file))]
    /\ UNCHANGED <<history_file, appended>>
    /\ UNCHANGED <<scoringVars, readinessVars, reviewVars, homeVars>>

\* histories of decisions with and without a follow-up: the outcome labels
\* as the templates and older versions wrote them, padded or not
FollowUpPredicted ==
    {Text(<<"P", "R", "O", "C", "E", "E", "D">>),
     Text(<<" ", "S", "T", "O", "P", " ">>),
     Text(<<"R", "E", "J", "E", "C", "T">>),
     Text(<<"R", "E", "V", "I", "E", "W", " ", "/", " ", "R", "E", "V", "I", "S", "E">>)}
FollowUpConfidence == {Text(<<"H", "I", "G", "H">>), Text(<<"L", "O", "W">>)}
FollowUpActual ==
    {Text(<<"S", "u", "c", "c", "e", "s", "s">>), Text(<<"F", "a", "i", "l", "u", "r", "e">>),
     Text(<<"P", "a", "r", "t", "i", "a", "l", " ", "S", "u", "c", "c", "e", "s", "s">>)}
FollowUpTemplate == Text(<<"G", "o", " ", "/", " ", "N", "o", "-", "G", "o">>)
FollowUpRecords ==
    LET plain == {[outcome |-> o, confidence |-> c,
                   template_name |-> FollowUpTemplate] :
                     o \in FollowUpPredicted, c \in FollowUpConfidence}
    IN  plain \cup {r @@ [follow_up |-> PyDict([outcome |-> a])] :
                        r \in plain, a \in FollowUpActual}
FollowUpHistories ==
    UNION {[1..n -> FollowUpRecords] : n \in 0..MaxDashboardRows}


---------------------------------------------------------------------------
(* Python's float is the IEEE 754 double. A double x with 0 <= x < 8 that is
   a whole number of 2^-60 is held exactly as x * 2^60 in three limbs of 21
   bits; every sum, quotient and difference is rounded to 53 significant
   bits, halves to even, as the hardware does. *)

RECURSIVE Pow2(_)
Pow2(k) == IF k = 0 THEN 1 ELSE 2 * Pow2(k - 1)
Limb == Pow2(21)

\* the limbs after the carries
Carry(hi, mid, lo) ==
    LET m == mid + lo \div Limb
    IN  [hi |-> hi + m \div Limb, mid |-> m % Limb, lo |-> lo % Limb]

IntBits(n) ==
    IF n = 0 THEN 0
    ELSE CHOOSE k \in 1..30 : Pow2(k - 1) <= n /\ n < Pow2(k)
LimbBits == IntBits(Limb) - 1
BitLen(x) ==
    IF x.hi > 0 THEN 2 * LimbBits + IntBits(x.hi)
    ELSE IF x.mid > 0 THEN LimbBits + IntBits(x.mid)
    ELSE IntBits(x.lo)

\* round to nearest, ties to even; sticky says that the exact value lies
\* above x
DoubleRound(x, sticky) ==
    LET g == BitLen(x) - 53
    IN  IF g <= 0 THEN x
        ELSE LET G == Pow2(g)
                 rem == x.lo % G
                 odd == (x.lo \div G) % 2 = 1
                 up == \/ 2 * rem > G
                       \/ 2 * rem = G /\ (sticky \/ odd)
             IN  Carry(x.hi, x.mid, x.lo - rem + (IF up THEN G ELSE 0))

DoubleLess(a, b) ==
    \/ a.hi < b.hi
    \/ a.hi = b.hi /\ a.mid < b.mid
    \/ a.hi = b.hi /\ a.mid = b.mid /\ a.lo < b.lo

\* a + b
DoubleAdd(a, b) ==
    DoubleRound(Carry(a.hi + b.hi, a.mid + b.mid, a.lo + b.lo), FALSE)

\* a / n for an int n
DoubleDivInt(a, n) ==
    LET r1 == a.hi % n
        r2 == (r1 * Limb + a.mid) % n
        r3 == (r2 * Limb + a.lo) % n
    IN  DoubleRound([hi |-> a.hi \div n,
                     mid |-> (r1 * Limb + a.mid) \div n,
                     lo |-> (r2 * Limb + a.lo) \div n], r3 # 0)

\* a - b, as a sign and a size
DoubleSub(a, b) ==
    LET big == IF DoubleLess(a, b) THEN b ELSE a
        small == IF DoubleLess(a, b) THEN a ELSE b
        lo == big.lo - small.lo
        mid == big.mid - small.mid - (IF lo < 0 THEN 1 ELSE 0)
        hi == big.hi - small.hi - (IF mid < 0 THEN 1 ELSE 0)
    IN  [negative |-> DoubleLess(a, b),
         size |-> DoubleRound([hi |-> hi, mid |-> (mid + Limb) % Limb,
                               lo |-> (lo + Limb) % Limb], FALSE)]

\* the literals of compute_pattern_insights
Double_0_0 == [hi |-> 0, mid |-> 0, lo |-> 0]
\* 0.80 is 0x1.999999999999ap-1
Double_0_80 == [hi |-> 209715, mid |-> 419430, lo |-> 838912]
\* 0.60 is 0x1.3333333333333p-1
Double_0_60 == [hi |-> 157286, mid |-> 838860, lo |-> 1677696]
\* 0.40 is 0x1.999999999999ap-2
Double_0_40 == [hi |-> 104857, mid |-> 1258291, lo |-> 419456]
Double_1_0 == [hi |-> 262144, mid |-> 0, lo |-> 0]
Double_0_5 == [hi |-> 131072, mid |-> 0, lo |-> 0]
\* 0.10 is 0x1.999999999999ap-4
Double_0_10 == [hi |-> 26214, mid |-> 838860, lo |-> 1677728]


\* compute_pattern_insights: norm_type
norm_type(x) ==
    IF StripChars(OrEmpty(x)) # <<>> THEN StripChars(OrEmpty(x))
    ELSE <<"U", "n", "k", "n", "o", "w", "n">>

\* compute_pattern_insights: conf_to_p, the expected probability of a
\* confidence label
conf_to_p(conf) ==
    LET c == UpperChars(StripChars(OrEmpty(conf)))
    IN  IF c = <<"H", "I", "G", "H">> THEN Double_0_80
        ELSE IF c = <<"M", "E", "D", "I", "U", "M">> THEN Double_0_60
        ELSE IF c = <<"L", "O", "W">> THEN Double_0_40
        ELSE Double_0_60

\* compute_pattern_insights: follow_to_success, None for an outcome it does
\* not know
follow_to_success(outcome) ==
    LET o == LowerChars(StripChars(OrEmpty(outcome)))
    IN  IF o = <<"s", "u", "c", "c", "e", "s", "s">> THEN Double_1_0
        ELSE IF o = <<"p", "a", "r", "t", "i", "a", "l", " ", "s", "u", "c", "c", "e", "s", "s">> THEN Double_0_5
        ELSE IF o = <<"f", "a", "i", "l", "u", "r", "e">> THEN Double_0_0
        ELSE PyNone

\* r.get("follow_up") or {}, and the outcome in it
FollowUpOutcome(r) ==
    IF Truthy(Get(r, "follow_up", PyNone))
    THEN Get(r.follow_up.items, "outcome", PyNone)
    ELSE PyNone

\* x1 + x2 + ... from 0.0, in the order of the records
RECURSIVE DoubleSum(_, _)
DoubleSum(xs, n) ==
    IF n = 0 THEN Double_0_0 ELSE DoubleAdd(DoubleSum(xs, n - 1), xs[n])

\* the Signal of a calibration gap
Signal(calibration_gap) ==
    IF ~calibration_gap.negative
       /\ DoubleLess(Double_0_10, calibration_gap.size) THEN "UNDERCONFIDENT"
    ELSE IF calibration_gap.negative
            /\ DoubleLess(Double_0_10, calibration_gap.size)
         THEN "OVERCONFIDENT"
    ELSE "CALIBRATED"

\* the Signal, with the two words exchanged
Signal_exchanged(calibration_gap) ==
    IF ~calibration_gap.negative
       /\ DoubleLess(Double_0_10, calibration_gap.size) THEN "OVERCONFIDENT"
    ELSE IF calibration_gap.negative
            /\ DoubleLess(Double_0_10, calibration_gap.size)
         THEN "UNDERCONFIDENT"
    ELSE "CALIBRATED"

\* compute_pattern_insights: one row per bucket, in the order in which the
\* types first appear; of a row the type, the two counts and the Signal are
\* kept, the rounded averages are left out
compute_pattern_insights(rows) ==
    LET type_of(i) == norm_type(Get(rows[i], "decision_type", PyNone))
        firsts == SelectSeq([i \in 1..Len(rows) |-> i],
                      LAMBDA i : \A j \in 1..(i - 1) : type_of(j) # type_of(i))
        row(t) ==
            LET members == SelectSeq([i \in 1..Len(rows) |-> i],
                               LAMBDA i : type_of(i) = t)
                learned == SelectSeq(members,
                               LAMBDA i : follow_to_success(
                                              FollowUpOutcome(rows[i])) # PyNone)
                n == Len(learned)
                success_sum ==
                    DoubleSum([k \in 1..n |->
                        follow_to_success(FollowUpOutcome(rows[learned[k]]))], n)
                conf_sum ==
                    DoubleSum([k \in 1..n |->
                        conf_to_p(Get(rows[learned[k]], "confidence", PyNone))],
                        n)
            IN  [Type |-> t, Decisions |-> Len(members), FollowUps |-> n,
                 Signal |-> IF n # 0
                            THEN Signal(DoubleSub(DoubleDivInt(success_sum, n),
                                                  DoubleDivInt(conf_sum, n)))
                            ELSE "NEED FOLLOW-UPS"]
    IN  [k \in 1..Len(firsts) |-> row(type_of(firsts[k]))]

ComputePatternInsights ==
    /\ last_call.op = "none"
    /\ DashboardRows(history_file) # <<>>
    /\ last_call' = [op |-> "compute_pattern_insights",
                     result |->
                         compute_pattern_insights(DashboardRows(history_file))]
    /\ UNCHANGED <<history_file, appended>>
    /\ UNCHANGED <<scoringVars, readinessVars, reviewVars, homeVars>>

\* histories of decisions of two types, some with a follow-up
PatternTypes == {Text(<<"H", "i", "r", "i", "n", "g">>), Text(<<"P", "r", "i", "c", "i", "n", "g">>)}
PatternConfidence == {Text(<<"H", "I", "G", "H">>), Text(<<"M", "E", "D", "I", "U", "M">>), Text(<<"L", "O", "W">>)}
PatternActual ==
    {Text(<<"S", "u", "c", "c", "e", "s", "s">>), Text(<<"F", "a", "i", "l", "u", "r", "e">>),
     Text(<<"P", "a", "r", "t", "i", "a", "l", " ", "S", "u", "c", "c", "e", "s", "s">>), Text(<<"M", "i", "x", "e", "d">>)}
PatternRecords ==
    LET plain == {[decision_type |-> t, confidence |-> c] :
                     t \in PatternTypes, c \in PatternConfidence}
    IN  plain \cup {r @@ [follow_up |-> PyDict([outcome |-> a])] :
                        r \in plain, a \in PatternActual}
PatternHistories ==
    UNION {[1..n -> PatternRecords] : n \in 0..MaxDashboardRows}

PatternInit == DashboardInit(PatternHistories)

PatternNext == ComputePatternInsights

SpecPatterns == PatternInit /\ [][PatternNext]_vars


\* compute_template_improvements: the words it knows for GO and for NO-GO
ImprovementGoWords ==
    {<<"P", "R", "O", "C", "E", "E", "D">>,
     <<"Y", "E", "S">>,
     <<"A", "P", "P", "R", "O", "V", "E">>}
ImprovementNoGoWords ==
    {<<"N", "O", " ", "G", "O">>,
     <<"N", "O", "G", "O">>,
     <<"S", "T", "O", "P">>}

\* compute_template_improvements: norm(r.get("template_name", "Unknown"))
TemplateOf(r) ==
    StripChars(OrEmpty(Get(r, "template_name",
                           Text(<<"U", "n", "k", "n", "o", "w", "n">>))))

\* compute_template_improvements: the predicted outcome in capitals, with
\* the synonyms replaced
ImprovementPredicted(r) ==
    LET predicted == UpperChars(OrEmpty(Get(r, "outcome", PyNone)))
        go == IF predicted \in ImprovementGoWords THEN Word_GO ELSE predicted
    IN  IF go \in ImprovementNoGoWords THEN Word_NO_GO ELSE go

\* compute_template_improvements: the follow-up outcome in small letters
ImprovementActual(r) == LowerChars(OrEmpty(FollowUpOutcome(r)))

FalseGo(r) ==
    ImprovementActual(r) = <<"f", "a", "i", "l", "u", "r", "e">> /\ ImprovementPredicted(r) = Word_GO
FalseNoGo(r) ==
    ImprovementActual(r) = <<"s", "u", "c", "c", "e", "s", "s">> /\ ImprovementPredicted(r) = Word_NO_GO

\* sst.get("spread") of r.get("scenario_stress_test") or {}
SpreadOf(r) ==
    IF Truthy(Get(r, "scenario_stress_test", PyNone))
    THEN Get(r.scenario_stress_test.items, "spread", PyNone)
    ELSE PyNone

\* compute_template_improvements: the counters of every template, in the
\* order in which the templates first appear; spreads are in hundredths
TemplateCounters(rows) ==
    LET firsts == SelectSeq([i \in 1..Len(rows) |-> i],
                      LAMBDA i : \A j \in 1..(i - 1) :
                                     TemplateOf(rows[j]) # TemplateOf(rows[i]))
        counters(tpl) ==
            LET members == {i \in 1..Len(rows) : TemplateOf(rows[i]) = tpl}
                spreads == SelectSeq([i \in 1..Len(rows) |-> i],
                               LAMBDA i : /\ i \in members
                                          /\ SpreadOf(rows[i]) # PyNone
                                          /\ Float(SpreadOf(rows[i])).exc = "none")
            IN  [Template |-> tpl,
                 count |-> Cardinality(members),
                 false_go |-> Cardinality({i \in members : FalseGo(rows[i])}),
                 false_nogo |->
                     Cardinality({i \in members : FalseNoGo(rows[i])}),
                 spread_sum |-> SeqSum([k \in 1..Len(spreads) |->
                                    Float(SpreadOf(rows[spreads[k]])).val]),
                 spread_n |-> Len(spreads)]
    IN  [k \in 1..Len(firsts) |-> counters(TemplateOf(rows[firsts[k]]))]

\* the least average spread, in hundredths, that is reported as high
HighSpread == 300

\* the recommendations for one template, with "at least 3" for the false GOs
Recommendations_three(t) ==
    LET avg_spread == IF t.spread_n # 0
                      THEN Num(RoundDivEven(t.spread_sum, t.spread_n))
                      ELSE PyNone
        rec(issue) == <<[Template |-> t.Template, Issue |-> issue,
                         AvgSpread |-> avg_spread]>>
    IN  IF t.count < 3 THEN <<>>
        ELSE (IF t.false_go >= 3 THEN rec("Too many false GO decisions")
              ELSE <<>>)
          \o (IF t.false_nogo >= 2 THEN rec("Too many false NO-GO decisions")
              ELSE <<>>)
          \o (IF Truthy(avg_spread) /\ avg_spread.n > HighSpread
              THEN rec("High uncertainty (large scenario spread)")
              ELSE <<>>)

\* compute_template_improvements: the recommendations for one template
Recommendations(t) ==
    LET avg_spread == IF t.spread_n # 0
                      THEN Num(RoundDivEven(t.spread_sum, t.spread_n))
                      ELSE PyNone
        rec(issue) == <<[Template |-> t.Template, Issue |-> issue,
                         AvgSpread |-> avg_spread]>>
    IN  IF t.count < 3 THEN <<>>
        ELSE (IF t.false_go >= 2 THEN rec("Too many false GO decisions")
              ELSE <<>>)
          \o (IF t.false_nogo >= 2 THEN rec("Too many false NO-GO decisions")
              ELSE <<>>)
          \o (IF Truthy(avg_spread) /\ avg_spread.n > HighSpread
              THEN rec("High uncertainty (large scenario spread)")
              ELSE <<>>)

\* compute_template_improvements
RECURSIVE RecommendationsUpTo(_, _)
RecommendationsUpTo(counters, n) ==
    IF n = 0 THEN <<>>
    ELSE RecommendationsUpTo(counters, n - 1) \o Recommendations(counters[n])
compute_template_improvements(rows) ==
    LET counters == TemplateCounters(rows)
    IN  [recommendations |-> RecommendationsUpTo(counters, Len(counters))]

ComputeTemplateImprovements ==
    /\ last_call.op = "none"
    /\ DashboardRows(history_file) # <<>>
    /\ last_call' = [op |-> "compute_template_improvements",
                     result |-> compute_template_improvements(
                                    DashboardRows(history_file))]
    /\ UNCHANGED <<history_file, appended>>
    /\ UNCHANGED <<scoringVars, readinessVars, reviewVars, homeVars>>

FollowUpInit == DashboardInit(FollowUpHistories)

FollowUpNext ==
    \/ ComputeTemplateImprovements
    \/ ComputeAccuracyMetrics

SpecFollowUps == FollowUpInit /\ [][FollowUpNext]_vars

---------------------------------------------------------------------------
(* Claims about compute_accuracy_metrics, checked under SpecFollowUps *)

\* the records with a follow-up, and those of them whose normalized predicted
\* label or actual outcome is Mixed, and those whose actual outcome is
\* Success or Failure
WithFollowUp(rows) == {i \in 1..Len(rows) : Truthy(FollowUpOf(rows[i]))}
MixedFollowUps(rows) ==
    {i \in WithFollowUp(rows) :
        \/ AccuracyPredicted(rows[i]) \notin {Word_GO, Word_NO_GO}
        \/ ActualLabel(FollowUpOf(rows[i])) = "Mixed"}
DecidedFollowUps(rows) ==
    {i \in WithFollowUp(rows) :
        ActualLabel(FollowUpOf(rows[i])) \in {"Positive", "Negative"}}

\* what C26 says of the counters
CountersAddUp(acc, rows) ==
    /\ acc.followups_total = Cardinality(WithFollowUp(rows))
    /\ acc.followups_total
           = acc.review_bucket + acc.tp + acc.fp + acc.tn + acc.fn
    /\ acc.total_strict = acc.tp + acc.fp + acc.tn + acc.fn
    /\ acc.review_bucket = Cardinality(MixedFollowUps(rows))
    /\ acc.calibration["Overconfident"] + acc.calibration["Underconfident"]
           + acc.calibration["Calibrated"]
           = Cardinality(DecidedFollowUps(rows))

\* C26 as stated: in compute_accuracy_metrics followups_total = review_bucket
\* + tp + fp + tn + fn and total_strict = tp + fp + tn + fn; a record goes to
\* review_bucket exactly when its normalized predicted label or its actual
\* follow-up outcome is Mixed; accuracy is (tp + tn) / total_strict, or None
\* when total_strict is 0; the three calibration counters sum to the number
\* of follow-ups whose actual outcome is Success or Failure
C26_AccuracyIsTheRatio ==
    last_call.op = "compute_accuracy_metrics" =>
        LET acc == last_call.result
        IN  /\ CountersAddUp(acc, DashboardRows(history_file))
            /\ (acc.total_strict = 0) = (acc.accuracy = PyNone)
            /\ acc.total_strict > 0 =>
                   acc.accuracy.n * acc.total_strict
                       = 1000 * (acc.tp + acc.tn)

\* C26, with the accuracy as the code returns it: the counters add up as
\* stated, and accuracy is (tp + tn) / total_strict rounded to three
\* decimals, or None when total_strict is 0
C26_AccuracyIsTheRatioRoundedToThreeDecimals ==
    last_call.op = "compute_accuracy_metrics" =>
        LET acc == last_call.result
        IN  /\ CountersAddUp(acc, DashboardRows(history_file))
            /\ (acc.total_strict = 0) = (acc.accuracy = PyNone)
            /\ acc.total_strict > 0 =>
                   /\ 2 * (acc.accuracy.n * acc.total_strict
                               - 1000 * (acc.tp + acc.tn))
                          <= acc.total_strict
                   /\ 2 * (1000 * (acc.tp + acc.tn)
                               - acc.accuracy.n * acc.total_strict)
                          <= acc.total_strict

\* three strict follow-ups of which one was predicted rightly, accuracy
\* 0.333, and one was a failure predicted with HIGH confidence
C26_Witness ==
    /\ last_call.op = "compute_accuracy_metrics"
    /\ last_call.result.total_strict = 3
    /\ last_call.result.tp + last_call.result.tn = 1
    /\ last_call.result.accuracy = Num(333)
    /\ last_call.result.calibration["Overconfident"] = 1

\* C29: for every list of records, the false-GO counts of
\* compute_template_improvements summed over the templates equal fp of
\* compute_accuracy_metrics, and the summed false-NO-GO counts equal fn,
\* also for the predicted labels that either function takes as a synonym
\* (PROCEED, YES, APPROVE, NO GO, NOGO, NO_GO, REJECT, STOP), with or without
\* surrounding whitespace
C29_FalseCountsAgreeWithTheConfusionMatrix ==
    last_call.op = "compute_accuracy_metrics" =>
        LET counters == TemplateCounters(DashboardRows(history_file))
        IN  /\ SeqSum([k \in 1..Len(counters) |-> counters[k].false_go])
                   = last_call.result.fp
            /\ SeqSum([k \in 1..Len(counters) |-> counters[k].false_nogo])
                   = last_call.result.fn

---------------------------------------------------------------------------
(* compute_template_improvements on histories of two templates *)

\* the scenario spreads round(best_score - worst_score, 2), in hundredths
ImprovementSpreads == {300, 301}
ImprovementTemplates == {Text(<<"G", "o", " ", "/", " ", "N", "o", "-", "G", "o">>), Text(<<"R", "i", "s", "k">>)}
\* a false GO, a false NO-GO, and a decision without follow-up
ImprovementCases ==
    {[outcome |-> Text(<<"P", "R", "O", "C", "E", "E", "D">>),
      follow_up |-> PyDict([outcome |-> Text(<<"F", "a", "i", "l", "u", "r", "e">>)])],
     [outcome |-> Text(<<"S", "T", "O", "P">>),
      follow_up |-> PyDict([outcome |-> Text(<<"S", "u", "c", "c", "e", "s", "s">>)])],
     [outcome |-> Text(<<"P", "R", "O", "C", "E", "E", "D">>)]}
ImprovementRecords ==
    LET plain == {c @@ [template_name |-> t] :
                     c \in ImprovementCases, t \in ImprovementTemplates}
    IN  plain \cup {r @@ [scenario_stress_test |->
                              PyDict([spread |-> Num(x)])] :
                        r \in plain, x \in ImprovementSpreads}
ImprovementHistories ==
    UNION {[1..n -> ImprovementRecords] : n \in 0..MaxDashboardRows}

ImprovementInit == DashboardInit(ImprovementHistories)

ImprovementNext == ComputeTemplateImprovements

SpecImprovements == ImprovementInit /\ [][ImprovementNext]_vars

---------------------------------------------------------------------------
(* Claims about compute_template_improvements, checked under
   SpecImprovements *)

\* the records of a template, those predicted GO that failed, those
\* predicted NO-GO that succeeded, and the sum and number of its spreads
RecordsOf(rows, tpl) == {i \in 1..Len(rows) : TemplateOf(rows[i]) = tpl}
Reported(out, tpl, issue) ==
    \E k \in 1..Len(out) : out[k].Template = tpl /\ out[k].Issue = issue
SpreadTotal(rows, tpl) ==
    LET with == {i \in RecordsOf(rows, tpl) : SpreadOf(rows[i]) # PyNone}
        RECURSIVE Total(_)
        Total(S) ==
            IF S = {} THEN 0
            ELSE LET i == CHOOSE i \in S : TRUE
                 IN  SpreadOf(rows[i]).n + Total(S \ {i})
    IN  [n |-> Cardinality(with), sum |-> Total(with)]

\* C28: compute_template_improvements never reports a template with fewer
\* than 3 records; for a template with at least 3 records it emits the
\* false-GO recommendation exactly when at least 2 of its records were
\* predicted GO with actual Failure, the false-NO-GO recommendation exactly
\* when at least 2 were predicted NO-GO with actual Success, and the
\* high-uncertainty recommendation exactly when its average scenario spread
\* is above 3
C28_RecommendationsFollowTheCounters ==
    last_call.op = "compute_template_improvements" =>
        LET rows == DashboardRows(history_file)
            out == last_call.result.recommendations
        IN  /\ \A k \in 1..Len(out) :
                   Cardinality(RecordsOf(rows, out[k].Template)) >= 3
            /\ \A i \in 1..Len(rows) :
                   LET tpl == TemplateOf(rows[i])
                       mine == RecordsOf(rows, tpl)
                       spread == SpreadTotal(rows, tpl)
                   IN  Cardinality(mine) >= 3 =>
                       /\ Reported(out, tpl, "Too many false GO decisions")
                              = (Cardinality({j \in mine : FalseGo(rows[j])})
                                     >= 2)
                       /\ Reported(out, tpl,
                                   "Too many false NO-GO decisions")
                              = (Cardinality({j \in mine :
                                                 FalseNoGo(rows[j])}) >= 2)
                       /\ Reported(out, tpl,
                              "High uncertainty (large scenario spread)")
                              = (spread.n > 0
                                 /\ spread.sum > 300 * spread.n)

---------------------------------------------------------------------------
(* Claims about compute_pattern_insights, checked under SpecPatterns *)

\* a follow-up outcome and a confidence label in hundredths, None for a
\* follow-up outcome that is not recognised
SuccessPercent(r) ==
    LET o == LowerChars(StripChars(OrEmpty(FollowUpOutcome(r))))
    IN  IF o = <<"s", "u", "c", "c", "e", "s", "s">> THEN Num(100)
        ELSE IF o = <<"p", "a", "r", "t", "i", "a", "l", " ", "s", "u", "c", "c", "e", "s", "s">> THEN Num(50)
        ELSE IF o = <<"f", "a", "i", "l", "u", "r", "e">> THEN Num(0)
        ELSE PyNone
ConfidencePercent(r) ==
    LET c == UpperChars(StripChars(OrEmpty(Get(r, "confidence", PyNone))))
    IN  IF c = <<"H", "I", "G", "H">> THEN 80 ELSE IF c = <<"L", "O", "W">> THEN 40 ELSE 60

\* n times the calibration gap of the records of type t, in hundredths, and n
GapOfType(rows, t) ==
    LET learned == {i \in 1..Len(rows) :
                       /\ norm_type(Get(rows[i], "decision_type", PyNone)) = t
                       /\ SuccessPercent(rows[i]) # PyNone}
        RECURSIVE Total(_)
        Total(S) ==
            IF S = {} THEN 0
            ELSE LET i == CHOOSE i \in S : TRUE
                 IN  SuccessPercent(rows[i]).n - ConfidencePercent(rows[i])
                     + Total(S \ {i})
    IN  [n |-> Cardinality(learned), sum |-> Total(learned)]

\* C27: compute_pattern_insights returns exactly one row per decision type
\* present; a type with no recognised follow-up gets the Signal
\* NEED FOLLOW-UPS; otherwise the gap is the mean of the follow-up values
\* (Success 1.0, Partial Success 0.5, Failure 0.0) minus the mean of the
\* confidence rates (HIGH 0.80, MEDIUM 0.60, LOW 0.40) over the records with
\* a follow-up, and the Signal is UNDERCONFIDENT when the gap is above 0.10,
\* OVERCONFIDENT when it is below -0.10 and CALIBRATED otherwise
C27_OneRowPerTypeWithTheSignalOfItsGap ==
    last_call.op = "compute_pattern_insights" =>
        LET rows == DashboardRows(history_file)
            out == last_call.result
            types == {norm_type(Get(rows[i], "decision_type", PyNone)) :
                          i \in 1..Len(rows)}
        IN  /\ \A t \in types :
                   Cardinality({k \in 1..Len(out) : out[k].Type = t}) = 1
            /\ \A k \in 1..Len(out) : out[k].Type \in types
            /\ \A k \in 1..Len(out) :
                   LET gap == GapOfType(rows, out[k].Type)
                   IN  out[k].Signal =
                           IF gap.n = 0 THEN "NEED FOLLOW-UPS"
                           ELSE IF gap.sum > 10 * gap.n THEN "UNDERCONFIDENT"
                           ELSE IF gap.sum < -10 * gap.n THEN "OVERCONFIDENT"
                           ELSE "CALIBRATED"

\* a type whose follow-ups average 0.5 and whose confidence rates, HIGH
\* and LOW, average 0.60 is reported as OVERCONFIDENT
C27_GapOfOneTenthReported ==
    /\ last_call.op = "compute_pattern_insights"
    /\ \E k \in 1..Len(last_call.result) :
           LET gap == GapOfType(DashboardRows(history_file),
                                last_call.result[k].Type)
           IN  /\ gap.n = 2
               /\ gap.sum = -20
               /\ last_call.result[k].Signal = "OVERCONFIDENT"


---------------------------------------------------------------------------
(* Two writers of the history that nothing serializes: one runs a
   read-then-rewrite operation of engine/storage.py in its two steps, the
   other appends a record whenever it likes *)

MaxRaceAppends == 1
RaceFollowUpIds == {PyStr("dec_a"), PyStr("dec_x")}
RaceDeleteTexts == {<<"t", "e", "s", "t">>}

\* no read-then-rewrite operation is between its read and its rewrite
NoWriterReading == "seen" \notin DOMAIN last_call

\* rows = read_jsonl(path, limit=5000) of update_decision_outcome
ReadForFollowUp ==
    /\ NoWriterReading
    /\ \E decision_id \in RaceFollowUpIds, outcome \in FollowUpOutcomes,
          notes \in FollowUpNotes, now \in Timestamps :
          last_call' = [op |-> "update_decision_outcome",
                        seen |-> history_file,
                        decision_id |-> decision_id, outcome |-> outcome,
                        notes |-> notes, now |-> now]
    /\ UNCHANGED <<history_file, appended>>
    /\ UNCHANGED <<scoringVars, readinessVars, reviewVars, homeVars>>

\* rows = read_jsonl(path, limit=50000) of delete_decisions_by_title_contains
ReadForDeleteByTitle ==
    /\ NoWriterReading
    /\ \E text \in RaceDeleteTexts :
          last_call' = [op |-> "delete_decisions_by_title_contains",
                        seen |-> history_file, text |-> text]
    /\ UNCHANGED <<history_file, appended>>
    /\ UNCHANGED <<scoringVars, readinessVars, reviewVars, homeVars>>

\* rows = read_jsonl(path, limit=50000) of delete_legacy_no_id
ReadForDeleteLegacy ==
    /\ NoWriterReading
    /\ last_call' = [op |-> "delete_legacy_no_id", seen |-> history_file]
    /\ UNCHANGED <<history_file, appended>>
    /\ UNCHANGED <<scoringVars, readinessVars, reviewVars, homeVars>>

\* rows = read_jsonl(path, limit=10_000_000) of migrate_history_schema
ReadForMigration ==
    /\ NoWriterReading
    /\ \E target \in TargetVersions :
          last_call' = [op |-> "migrate_history_schema",
                        seen |-> history_file, target |-> target]
    /\ UNCHANGED <<history_file, appended>>
    /\ UNCHANGED <<scoringVars, readinessVars, reviewVars, homeVars>>

\* what the operation in flight makes of the rows it read: the file it
\* would write, and whether it calls overwrite_jsonl at all
RewriteOf(call) ==
    CASE call.op = "update_decision_outcome" ->
            LET done == update_decision_outcome(call.seen, call.decision_id,
                            call.outcome, call.notes, call.now)
            IN  [file |-> done.file, writes |-> done.result,
                 result |-> done.result]
      [] call.op = "delete_decisions_by_title_contains" ->
            LET done == delete_decisions_by_title_contains(call.seen, call.text)
            IN  [file |-> done.file, writes |-> done.result > 0,
                 result |-> done.result]
      [] call.op = "delete_legacy_no_id" ->
            LET done == delete_legacy_no_id(call.seen)
            IN  [file |-> done.file, writes |-> done.result > 0,
                 result |-> done.result]
      [] call.op = "migrate_history_schema" ->
            LET done == migrate_history_schema(call.seen, call.target)
            IN  [file |-> done.file, writes |-> done.result.total > 0,
                 result |-> done.result]

\* the rest of the operation in flight: the loop over the rows it read and
\* overwrite_jsonl(path, rows); read is the number of records it had read
\* and beside the number of records appended to the file since
Rewrite ==
    /\ ~NoWriterReading
    /\ history_file' = IF RewriteOf(last_call).writes
                       THEN RewriteOf(last_call).file
                       ELSE history_file
    /\ last_call' = [op |-> last_call.op,
                     read |-> Len(Stored(last_call.seen)),
                     beside |-> Len(Stored(history_file))
                                    - Len(Stored(last_call.seen)),
                     wrote |-> RewriteOf(last_call).writes,
                     result |-> RewriteOf(last_call).result]
    /\ UNCHANGED appended
    /\ UNCHANGED <<scoringVars, readinessVars, reviewVars, homeVars>>

\* append_jsonl by the other writer
AppendBeside ==
    /\ Len(appended) < MaxRaceAppends
    /\ \E record \in StoredRecords :
          /\ history_file' = append_jsonl(history_file, record)
          /\ appended' = Append(appended, record)
    /\ UNCHANGED last_call
    /\ UNCHANGED <<scoringVars, readinessVars, reviewVars, homeVars>>

RaceInit == HistoryInit

RaceNext ==
    \/ ReadForFollowUp
    \/ ReadForDeleteByTitle
    \/ ReadForDeleteLegacy
    \/ ReadForMigration
    \/ Rewrite
    \/ AppendBeside

SpecRace == RaceInit /\ [][RaceNext]_vars

---------------------------------------------------------------------------
(* Claims about writers of the history, checked under SpecRace and
   SpecBulkHistory *)

DeleteOperations ==
    {"delete_decisions_by_title_contains", "delete_legacy_no_id"}

\* C21, the race: there is an interleaving in which a writer appends a
\* record after an update of a follow-up or a migration has read the log and
\* before it rewrites it, and the appended record is missing from the final
\* history
C21_RaceLosesAppendedRecord ==
    /\ "wrote" \in DOMAIN last_call
    /\ last_call.wrote
    /\ last_call.op \notin DeleteOperations
    /\ appended # <<>>
    /\ last_call.beside = Len(appended)
    /\ Len(Stored(history_file)) = last_call.read

\* C21, one at a time: when the operations run one at a time, no appended
\* record disappears except through a delete operation: after an update of
\* a follow-up the history holds as many records as before, the oldest one
\* first
C21_OnlyDeletesRemoveRecords ==
    [][last_call'.op \notin DeleteOperations
          => /\ Len(Stored(history_file')) >= Len(Stored(history_file))
             /\ Stored(history_file) # <<>> =>
                    Get(Head(Stored(history_file')), "decision_id", PyNone)
                        = Get(Head(Stored(history_file)), "decision_id", PyNone)
      ]_vars

====
